---- MODULE Spec2Model ----
(***************************************************************************)
(* State-machine model of the AIpex firmware streaming engine:             *)
(*   - GrpcClient::Impl            (src/src/grpc_client.cpp)               *)
(*   - ComputeServiceImpl::Datastream (src/src/service_impl.cpp)           *)
(*   - GrpcServer lifecycle        (src/src/grpc_server.cpp, init.cpp)     *)
(*   - the presenter main loop     (src/src/main.cpp)                      *)
(* Threads are modelled by program counters; every blocking call or lock   *)
(* acquisition is a separate step so that interleavings are explored.      *)
(***************************************************************************)
EXTENDS Integers, Sequences, FiniteSets, TLC

(* ------------------------------ bounds -------------------------------- *)
\* messages the wire delivers to the client reader over the whole run
MaxReads == 6
\* stream writes the client callers attempt over the whole run
MaxWrites == 3
\* streams a client opens over the whole run (Start after a full Stop)
MaxStarts == 2

\* commands one Datastream handler reads
MaxCommands == 3
\* one-shot WakeUp RPCs a client issues
MaxWakeups == 1
\* calls made to the HailoManager
MaxManagerCalls == 4
\* boxes parse_nms_data returns for one frame
MaxBoxes == 3
\* detection objects in one JSON text given to parse_bboxes_from_json
MaxObjects == 2
\* the class count given to parse_nms_data (80 in hailo_object_detection.cpp:191)
\* and the boxes per class the output buffer of the graph has room for
ClassCount == 4
MaxPerClass == 1
\* calls of hailo_init and the threads that make them
MaxInitCalls == 3
MaxInitThreads == 2

(* --------------------------- program constants ------------------------ *)
\* grpc_client.cpp:196  if (frame_queue_.size() > 4) erase(begin())
FrameQueueCap == 4

(* ------------------------------ threads ------------------------------- *)
\* threads that call the public GrpcClient operations
Callers == {"t1", "t2"}
NoThread == "free"

\* what the target of grpc::CreateChannel (grpc_client.cpp:362) is for the
\* whole run: a serving peer, or a host:port nothing listens on
ChannelStates == {"ready", "unreachable"}

(* --------------------------- wire vocabulary -------------------------- *)
\* request texts given to GrpcClient::SendRequest
Texts == {"start_streaming", "stop_streaming", "reboot", "32", "wakeup", "hello"}

\* Command variants (data_types.proto, Command)
CommandFields == {"control_action", "heartbeat", "camera_frame",
                  "detection_result", "config_request"}

\* ServerMessage values the peer can put on the wire.  image: the JPEG payload
\* of a camera_frame ("empty": zero bytes, "bad": imdecode fails, "jpeg": ok);
\* boxes: number of boxes parse_bboxes_from_json extracts from the payload.
ServerMessages ==
    {[kind |-> "detection_result", boxes |-> b, image |-> "none", message |-> "none"] : b \in 0..1}
    \cup {[kind |-> "camera_frame", boxes |-> 0, image |-> i, message |-> "none"] : i \in {"empty", "bad", "jpeg"}}
    \cup {[kind |-> "config_response", boxes |-> 0, image |-> "none", message |-> m] : m \in {"terminate_ack", "ok"}}
    \cup {[kind |-> "device_status", boxes |-> 0, image |-> "none", message |-> "none"]}

VARIABLES
    \* ---- GrpcClient::Impl members (grpc_client.cpp:338-356)
    running_,           \* std::atomic<bool>
    context_,           \* "null" | "live" | "cancelled"
    stream_,            \* "null" | "open" | "finished"
    reader_thread_,     \* TRUE iff the std::thread object is joinable
    writer_mtx_,        \* holder of writer_mtx_, or NoThread
    frame_mtx_,         \* holder of frame_mtx_, or NoThread
    det_queue_,         \* sequence of detection ids
    frame_queue_,       \* sequence of frame ids
    sent_frames_,
    received_results_,
    \* ---- control state of the threads using the client
    pc,                 \* program counter of each caller thread
    rpc,                \* program counter of the reader thread
    cmdbuf,             \* the Command a caller has built and is about to write
    ret,                \* the most recent return: caller, operation, value
    crashed,            \* std::terminate was called
    lifetime,           \* "unborn" | "alive" | "destroying" | "destroyed" (GrpcClient object)
    channel_,           \* connectivity of the channel's target: "ready" | "unreachable"
    wake_rpcs,          \* one-shot WakeUp RPCs issued so far
    stopReturned,       \* a Stop() call has returned and no Start() began since
    \* ---- process-wide flag (main.cpp:19)
    g_terminate,
    \* ---- observation of the client stream
    wire,               \* Commands written to the client stream, in order
    inWrite,            \* threads inside Write/WritesDone on the client stream
    nread,              \* messages the reader has read
    nstarts,            \* streams opened
    nattempts,          \* stream writes attempted by callers
    nframes,            \* frames enqueued so far (ids are 1..nframes)
    npushed,            \* detections pushed so far (ids are 1..npushed)
    popped,             \* frame ids returned by PopRemoteFrame, in order
    returned,           \* detection ids returned by PopDetections, in order
    ackAt,              \* value of nread when this reader read terminate_ack, else 0
    \* ---- one ComputeServiceImpl::Datastream invocation (service_impl.cpp:13-148)
    hpc,                \* "none" (no RPC) | "loop" | "write" | "exit" | "done"
    h_running,          \* std::atomic<bool> running (line 17)
    h_write_mtx,        \* holder of write_mtx (line 16), or NoThread
    h_cmd,              \* the Command read last (line 39)
    h_sm,               \* the ServerMessage being written
    h_cancelled,        \* context->IsCancelled()
    h_status,           \* the grpc::Status returned, "none" while serving
    lowlight,           \* HailoManager::is_lowlight_only() (environment)
    s_wire,             \* ServerMessages written to the server stream, in order
    h_inWrite,          \* threads inside Write on the server stream
    h_nread,            \* commands the handler has read
    h_outcome,          \* what became of the command read last, "none" if not a frame
    h_exit,             \* why the read loop was left, "none" while it runs
    h_ninfer,           \* frames decoded and inferred successfully so far
    forward_target,     \* FORWARD_TARGET is set to a non-empty string (service_impl.cpp:21)
    forward_client,     \* the handler's unique_ptr<GrpcClient>: "null" | "streaming"
    fwd_made,           \* GrpcClient objects the handler constructed
    fwd_starts,         \* StartStreaming calls of the handler that returned true
    fwd_stops,          \* StopStreaming calls the handler made on its forward client
    \* ---- GrpcServer members (grpc_server.h:22-32)
    shutting_down_,     \* std::atomic<bool>
    cq_thread_exited_,  \* std::atomic<bool>
    server_,            \* "null" | "serving" | "shutdown"
    cq_,                \* "null" | "open" | "shutdown"
    cq_thread_,         \* std::thread object: "none" | "joinable" | "detached"
    \* ---- threads of the server and of main()
    qpc,                \* completion-queue pump: "none" | "next" | "exiting" | "done"
    spc,                \* server thread, inside GrpcServer::Start
    sd,                 \* position of each caller inside GrpcServer::Shutdown
    ready,              \* the promise of Start: "unset" | "value" | "exception"
    mpc,                \* main()
    server_thread,      \* main's std::thread server_thread is joinable
    exitcode,           \* value main returns, "none" before
    bodyRuns,           \* times the body of Shutdown was entered
    \* ---- HailoManager members (hailo_manager.h:35-42); an object is its id, 0 is null
    vdevice_,
    infer_model_,
    configured_infer_model_,
    input_shape_,            \* id of the model the shape was read from, 0 if never set
    input_frame_size_,       \* 0, or 1 for the size computed from input_shape_
    extra_infer_models_,     \* std::map: path -> object id, 0 for a path not in the map
    extra_configured_models_,
    \* ---- history of the calls made to the HailoManager
    hm_calls,           \* calls made so far
    hm_made,            \* objects created so far; the next object gets id hm_made + 1
    hm_out,             \* the call made last and what it returned
    hm_first,           \* per path, the pair the first successful get_or_create_model returned
    hm_loads,           \* per path, create_infer_model calls made by get_or_create_model
    hm_default,         \* path of the graph the last successful init loaded, "none" before
    \* ---- hailo_infer (hailo_object_detection.cpp:24, 91-236)
    g_detection_threshold,  \* static float, in units of 0.00001
    nms_bboxes,         \* what parse_nms_data returns for the frame (line 192)
    result_json,        \* the out-parameter of hailo_infer
    infer_ret,          \* what hailo_infer returned ("0", "-1"), "none" before the call
    \* ---- parse_bboxes_from_json (grpc_client.cpp:16-91)
    json_text,          \* the argument s, as the sequence of its detection objects
    parse_res,          \* the vector returned
    parse_called,       \* the function has been called
    sm,                 \* ReaderLoop's local sm (grpc_client.cpp:122): the message read last
    \* ---- parse_nms_data (hailo_utils.cpp:77-96), sizes in units of one float32
    nms_size,           \* size of the buffer behind data (hailo_object_detection.cpp:153-157)
    nms_offset,         \* the local offset
    nms_class,          \* the loop variable class_id
    nms_out,            \* class ids of the records pushed to bboxes, in order
    \* ---- hailo_init (hailo_object_detection.cpp:13-21, 36-80); an object is its id, 0 is null
    g_hailo_ctx,        \* static HailoContext: vdevice, infer_model, configured_infer_model, input_shape
    hi_pc,              \* per thread, its position inside hailo_init
    hi_ret,             \* per thread, what its last call of hailo_init returned, "none" before
    hi_calls,           \* calls of hailo_init begun so far
    hi_made,            \* objects created by hailo_init; the next one gets id hi_made + 1
    hi_done             \* calls of hailo_init that configured a graph and returned 0

clientVars == <<running_, context_, stream_, reader_thread_, writer_mtx_, frame_mtx_,
                det_queue_, frame_queue_, sent_frames_, received_results_,
                pc, rpc, cmdbuf, ret, crashed, lifetime, channel_, wake_rpcs,
                stopReturned, wire, inWrite, nread, nstarts, nattempts, nframes, npushed,
                popped, returned, ackAt>>

handlerVars == <<hpc, h_running, h_write_mtx, h_cmd, h_sm, h_cancelled, h_status,
                 lowlight, s_wire, h_inWrite, h_nread, h_outcome, h_exit, h_ninfer,
                 forward_target, forward_client, fwd_made, fwd_starts, fwd_stops>>

clientState == <<clientVars, g_terminate>>

\* the caller that stands for main's thread
MainCaller == "t1"

srvVars == <<shutting_down_, cq_thread_exited_, server_, cq_, cq_thread_, qpc, sd,
             ready, bodyRuns>>

\* the program counters of the server thread and of main with main's locals
flowVars == <<spc, mpc, server_thread, exitcode>>

hailoVars == <<vdevice_, infer_model_, configured_infer_model_, input_shape_,
               input_frame_size_, extra_infer_models_, extra_configured_models_,
               hm_calls, hm_made, hm_out, hm_first, hm_loads, hm_default>>

\* state of the free functions around the accelerator and the parser, with
\* the message the reader hands to the parser
parserVars == <<json_text, parse_res, parse_called, sm>>
nmsVars == <<nms_size, nms_offset, nms_class, nms_out>>
libVars == <<g_detection_threshold, nms_bboxes, result_json, infer_ret, parserVars, nmsVars,
             g_hailo_ctx, hi_pc, hi_ret, hi_calls, hi_made, hi_done>>

vars == <<clientVars, g_terminate, handlerVars, srvVars, flowVars, hailoVars, libVars>>

NoMsg == [kind |-> "none", boxes |-> 0, image |-> "none", message |-> "none"]

NoCmd == [variant |-> {}, action |-> "none", image |-> "none"]
NoRet == [by |-> "none", op |-> "none", val |-> "none"]

\* constructed: a GrpcClient object exists on this node
InitClient(constructed) ==
    /\ running_ = FALSE
    /\ context_ = "null"
    /\ stream_ = "null"
    /\ reader_thread_ = FALSE
    /\ writer_mtx_ = NoThread
    /\ frame_mtx_ = NoThread
    /\ det_queue_ = <<>>
    /\ frame_queue_ = <<>>
    /\ sent_frames_ = 0
    /\ received_results_ = 0
    /\ pc = [t \in Callers |-> "idle"]
    /\ rpc = "none"
    /\ cmdbuf = [t \in Callers |-> NoCmd]
    /\ ret = NoRet
    /\ crashed = FALSE
    /\ lifetime = IF constructed THEN "alive" ELSE "unborn"
    /\ wake_rpcs = 0
    /\ stopReturned = FALSE
    /\ wire = <<>>
    /\ inWrite = {}
    /\ nread = 0
    /\ nstarts = 0
    /\ nattempts = 0
    /\ nframes = 0
    /\ npushed = 0
    /\ popped = <<>>
    /\ returned = <<>>
    /\ ackAt = 0

\* the handler's locals once Datastream has been entered; rpcOpen tells
\* whether a peer has opened a Datastream RPC on this node
InitHandler(rpcOpen) ==
    /\ hpc = IF rpcOpen THEN "loop" ELSE "none"
    /\ h_running = TRUE
    /\ h_write_mtx = NoThread
    /\ h_cmd = NoCmd
    /\ h_sm = NoMsg
    /\ h_cancelled = FALSE
    /\ h_status = "none"
    /\ lowlight \in BOOLEAN
    /\ s_wire = <<>>
    /\ h_inWrite = {}
    /\ h_nread = 0
    /\ h_outcome = "none"
    /\ h_exit = "none"
    /\ h_ninfer = 0
    /\ forward_target = FALSE
    /\ forward_client = "null"
    /\ fwd_made = 0
    /\ fwd_starts = 0
    /\ fwd_stops = 0

\* graph files given to the HailoManager
Paths == {"best.hef", "lowlight.hef"}

\* no (inference-graph, configured-graph) pair
NoPair == [infer |-> 0, configured |-> 0]
NoCall == [op |-> "none", path |-> "none", ok |-> FALSE, pair |-> NoPair]

\* hailo_manager.h:30, 35-42: the singleton as default-constructed
InitManager ==
    /\ vdevice_ = 0
    /\ infer_model_ = 0
    /\ configured_infer_model_ = 0
    /\ input_shape_ = 0
    /\ input_frame_size_ = 0
    /\ extra_infer_models_ = [p \in Paths |-> 0]
    /\ extra_configured_models_ = [p \in Paths |-> 0]
    /\ hm_calls = 0
    /\ hm_made = 0
    /\ hm_out = NoCall
    /\ hm_first = [p \in Paths |-> NoPair]
    /\ hm_loads = [p \in Paths |-> 0]
    /\ hm_default = "none"

\* detection scores and thresholds, in units of 0.00001; 50000 is the
\* initial value of g_detection_threshold (hailo_object_detection.cpp:24)
Scores == {49996, 50000, 90000}
Thresholds == {49995, 50000}

\* NamedBbox values (class ids as parse_nms_data assigns them, hailo_utils.cpp:91)
\* and the lists of them parse_nms_data can return
NamedBboxes == [class_id : {1, 2}, score : Scores]
BboxLists == UNION {[1..n -> NamedBboxes] : n \in 0..MaxBoxes}

\* result_json before hailo_infer has assigned it (the empty string)
NoJson == [detections |-> <<>>, count |-> -1]

\* the detection objects "{ ... }" a JSON text can hold, numbers in tenths.
\* bbox = "object": "bbox":{"x_min":n[1],"y_min":n[2],"x_max":n[3],"y_max":n[4]};
\* bbox = "array": "bbox":[n[1],n[2],n[3],n[4]], with a fifth element 5 when
\* len = 5; fields: which of "score":0.9 and "class":"car" the object carries.
\* <<3, 2, 3, 4>> has x_min = x_max and <<1, 5, 3, 4>> has y_min > y_max
DetObjects ==
    [bbox : {"object"},
     n : {<<x, 2, w, 4>> : x \in {-1, 1}, w \in {0, 3}} \cup {<<3, 2, 3, 4>>, <<1, 5, 3, 4>>},
     len : {4}, fields : SUBSET {"score", "class"}]
    \cup [bbox : {"array"},
          n : {<<x, 2, w, 4>> : x \in {-1, 1}, w \in {0, 3}} \cup {<<3, 2, 3, 4>>, <<1, 5, 3, 4>>},
          len : {4, 5}, fields : SUBSET {"score", "class"}]

\* a process in which neither hailo_infer nor the parser is called
InitLibrary ==
    /\ g_detection_threshold = 50000
    /\ nms_bboxes = <<>>
    /\ result_json = NoJson
    /\ infer_ret = "none"
    /\ json_text = <<>>
    /\ parse_res = <<>>
    /\ parse_called = FALSE
    /\ sm = NoMsg
    /\ nms_size = ClassCount * (1 + 5 * MaxPerClass)
    /\ nms_offset = 0
    /\ nms_class = 0
    /\ nms_out = <<>>
    /\ g_hailo_ctx = [vdevice |-> 0, infer_model |-> 0, configured_infer_model |-> 0,
                      input_shape |-> 0]
    /\ hi_pc = [t \in 1..MaxInitThreads |-> "idle"]
    /\ hi_ret = [t \in 1..MaxInitThreads |-> "none"]
    /\ hi_calls = 0
    /\ hi_made = 0
    /\ hi_done = 0

\* threads that call GrpcServer::Shutdown
ShutdownCallers == {"main", "server"}

\* grpc_server.cpp:7-11, grpc_server.h:31-32: a constructed GrpcServer, and
\* main() at the position given
InitServer(at) ==
    /\ shutting_down_ = FALSE
    /\ cq_thread_exited_ = FALSE
    /\ server_ = "null"
    /\ cq_ = "null"
    /\ cq_thread_ = "none"
    /\ qpc = "none"
    /\ spc = "none"
    /\ sd = [c \in ShutdownCallers |-> "out"]
    /\ ready = "unset"
    /\ mpc = at
    /\ server_thread = FALSE
    /\ exitcode = "none"
    /\ bodyRuns = 0

\* a GrpcClient in use, with callers that are not sequenced by main()
InitPresenter ==
    /\ InitManager
    /\ InitLibrary
    /\ InitClient(TRUE)
    /\ channel_ \in ChannelStates
    /\ g_terminate = FALSE
    /\ InitHandler(FALSE)
    /\ lowlight = FALSE
    /\ InitServer("none")

\* a node that serves one Datastream RPC and has constructed no GrpcClient
InitCompute ==
    /\ InitManager
    /\ InitLibrary
    /\ InitClient(FALSE)
    /\ channel_ = "ready"
    /\ g_terminate = FALSE
    /\ InitHandler(TRUE)
    /\ InitServer("none")

\* hailo_object_detection.cpp:147-192: parse_nms_data is called on the first
\* output buffer, allocated with the frame size of the graph's output: one
\* count and room for MaxPerClass records for each class of the graph, which
\* has as many classes as the count passed or fewer
InitNms ==
    /\ InitManager
    /\ g_detection_threshold = 50000
    /\ nms_bboxes = <<>>
    /\ result_json = NoJson
    /\ infer_ret = "none"
    /\ json_text = <<>>
    /\ parse_res = <<>>
    /\ parse_called = FALSE
    /\ sm = NoMsg
    /\ nms_size \in {g * (1 + 5 * MaxPerClass) : g \in 1..ClassCount}
    /\ nms_offset = 0
    /\ nms_class = 0
    /\ nms_out = <<>>
    /\ g_hailo_ctx = [vdevice |-> 0, infer_model |-> 0, configured_infer_model |-> 0,
                      input_shape |-> 0]
    /\ hi_pc = [t \in 1..MaxInitThreads |-> "idle"]
    /\ hi_ret = [t \in 1..MaxInitThreads |-> "none"]
    /\ hi_calls = 0
    /\ hi_made = 0
    /\ hi_done = 0
    /\ InitClient(FALSE)
    /\ channel_ = "ready"
    /\ g_terminate = FALSE
    /\ InitHandler(FALSE)
    /\ lowlight = FALSE
    /\ InitServer("none")

\* service_impl.cpp:13-18: Datastream has been entered for an RPC; the
\* environment may or may not name a forward target
InitForward ==
    /\ InitManager
    /\ InitLibrary
    /\ InitClient(FALSE)
    /\ channel_ = "ready"
    /\ g_terminate = FALSE
    /\ hpc = "entry"
    /\ h_running = TRUE
    /\ h_write_mtx = NoThread
    /\ h_cmd = NoCmd
    /\ h_sm = NoMsg
    /\ h_cancelled = FALSE
    /\ h_status = "none"
    /\ lowlight = FALSE
    /\ s_wire = <<>>
    /\ h_inWrite = {}
    /\ h_nread = 0
    /\ h_outcome = "none"
    /\ h_exit = "none"
    /\ h_ninfer = 0
    /\ forward_target \in BOOLEAN
    /\ forward_client = "null"
    /\ fwd_made = 0
    /\ fwd_starts = 0
    /\ fwd_stops = 0
    /\ InitServer("none")

\* main.cpp:65-99: the process at the call of init_system
InitMain ==
    /\ InitManager
    /\ InitLibrary
    /\ InitClient(FALSE)
    /\ channel_ \in ChannelStates
    /\ g_terminate = FALSE
    /\ InitHandler(FALSE)
    /\ lowlight = FALSE
    /\ InitServer("init_system")

\* a process that uses the accelerator only: the HailoManager or hailo_init
InitAccelerator ==
    /\ InitManager
    /\ InitLibrary
    /\ InitClient(FALSE)
    /\ channel_ = "ready"
    /\ g_terminate = FALSE
    /\ InitHandler(FALSE)
    /\ lowlight = FALSE
    /\ InitServer("none")

\* a process at a call of hailo_infer: the accelerator has produced the NMS
\* output of one frame
InitInference ==
    /\ InitManager
    /\ g_detection_threshold \in Thresholds
    /\ nms_bboxes \in BboxLists
    /\ result_json = NoJson
    /\ infer_ret = "none"
    /\ json_text = <<>>
    /\ parse_res = <<>>
    /\ parse_called = FALSE
    /\ sm = NoMsg
    /\ nms_size = ClassCount * (1 + 5 * MaxPerClass)
    /\ nms_offset = 0
    /\ nms_class = 0
    /\ nms_out = <<>>
    /\ g_hailo_ctx = [vdevice |-> 0, infer_model |-> 0, configured_infer_model |-> 0,
                      input_shape |-> 0]
    /\ hi_pc = [t \in 1..MaxInitThreads |-> "idle"]
    /\ hi_ret = [t \in 1..MaxInitThreads |-> "none"]
    /\ hi_calls = 0
    /\ hi_made = 0
    /\ hi_done = 0
    /\ InitClient(FALSE)
    /\ channel_ = "ready"
    /\ g_terminate = FALSE
    /\ InitHandler(FALSE)
    /\ lowlight = FALSE
    /\ InitServer("none")

\* a reader at a call of parse_bboxes_from_json (grpc_client.cpp:159)
InitParser ==
    /\ InitManager
    /\ g_detection_threshold = 50000
    /\ nms_bboxes = <<>>
    /\ result_json = NoJson
    /\ infer_ret = "none"
    /\ json_text \in UNION {[1..n -> DetObjects] : n \in 0..MaxObjects}
    /\ parse_res = <<>>
    /\ parse_called = FALSE
    /\ sm = NoMsg
    /\ nms_size = ClassCount * (1 + 5 * MaxPerClass)
    /\ nms_offset = 0
    /\ nms_class = 0
    /\ nms_out = <<>>
    /\ g_hailo_ctx = [vdevice |-> 0, infer_model |-> 0, configured_infer_model |-> 0,
                      input_shape |-> 0]
    /\ hi_pc = [t \in 1..MaxInitThreads |-> "idle"]
    /\ hi_ret = [t \in 1..MaxInitThreads |-> "none"]
    /\ hi_calls = 0
    /\ hi_made = 0
    /\ hi_done = 0
    /\ InitClient(FALSE)
    /\ channel_ = "ready"
    /\ g_terminate = FALSE
    /\ InitHandler(FALSE)
    /\ lowlight = FALSE
    /\ InitServer("none")

\* main.cpp:110-114: the server is up (init_system has returned true), the
\* video source could not be opened and main is about to call
\* shutdown_system; a peer may have a Datastream RPC open on the server
InitServing ==
    /\ InitManager
    /\ InitLibrary
    /\ InitClient(FALSE)
    /\ channel_ = "ready"
    /\ g_terminate = FALSE
    /\ \E rpcOpen \in BOOLEAN : InitHandler(rpcOpen)
    /\ lowlight = FALSE
    /\ shutting_down_ = FALSE
    /\ cq_thread_exited_ = FALSE
    /\ server_ = "serving"
    /\ cq_ = "open"
    /\ cq_thread_ = "joinable"
    /\ qpc = "next"
    /\ spc = "wait"
    /\ sd = [c \in ShutdownCallers |-> "out"]
    /\ ready = "value"
    /\ mpc = "shutdown_system"
    /\ server_thread = TRUE
    /\ exitcode = "1"
    /\ bodyRuns = 0

Init == \/ InitPresenter \/ InitCompute \/ InitMain \/ InitAccelerator
        \/ InitInference \/ InitParser \/ InitServing \/ InitForward \/ InitNms

\* a caller may begin a new public operation
CanCall(t) == /\ ~crashed
              /\ lifetime = "alive"
              /\ pc[t] = "idle"

Return(t, op, val) ==
    /\ pc' = [pc EXCEPT ![t] = "idle"]
    /\ ret' = [by |-> t, op |-> op, val |-> val]

(* ------------------------- GrpcClient::Impl::Start -------------------- *)
\* outcomes of stub_->Datastream(context): TRUE iff a reader-writer is returned.
\* The synchronous stub always allocates one, so the !stream_ branch of
\* grpc_client.cpp:108-112 is kept in Start but never taken.
DatastreamResults == {TRUE}

\* mutant: the exchange reports a stopped client whatever the flag holds
NeverRunning == FALSE

\* grpc_client.cpp:103: running_.exchange(true) returns the previous value
AlreadyRunning == running_

\* grpc_client.cpp:101-112: exchange the running flag, create context and stream
StartBegin(t) ==
    /\ CanCall(t)
    /\ IF AlreadyRunning
         THEN /\ Return(t, "start", "true")
              /\ UNCHANGED <<running_, context_, stream_, nstarts, stopReturned>>
         ELSE /\ nstarts < MaxStarts
              /\ nstarts' = nstarts + 1
              /\ context_' = "live"
              /\ stopReturned' = FALSE
              /\ \E created \in DatastreamResults :
                    IF created
                      THEN /\ stream_' = "open"
                           /\ running_' = TRUE
                           /\ pc' = [pc EXCEPT ![t] = "start_launch"]
                           /\ UNCHANGED ret
                      ELSE /\ stream_' = "null"
                           /\ running_' = FALSE
                           /\ Return(t, "start", "false")
    /\ UNCHANGED <<reader_thread_, writer_mtx_, frame_mtx_, det_queue_, frame_queue_,
                   sent_frames_, received_results_, rpc, cmdbuf, crashed, lifetime, channel_, wake_rpcs,
                   wire, inWrite, nattempts, nread, nframes, npushed, popped, returned, ackAt, g_terminate>>

\* grpc_client.cpp:115-116: reader_thread_ = std::thread(...); assigning over a
\* joinable std::thread calls std::terminate
StartLaunch(t) ==
    /\ ~crashed
    /\ pc[t] = "start_launch"
    /\ IF reader_thread_
         THEN /\ crashed' = TRUE
              /\ UNCHANGED <<reader_thread_, rpc, pc, ret, ackAt>>
         ELSE /\ reader_thread_' = TRUE
              /\ rpc' = "read"
              /\ ackAt' = 0
              /\ Return(t, "start", "true")
              /\ UNCHANGED crashed
    /\ UNCHANGED <<running_, context_, stream_, writer_mtx_, frame_mtx_, det_queue_,
                   frame_queue_, sent_frames_, received_results_, cmdbuf, lifetime, channel_, wake_rpcs,
                   stopReturned, wire, inWrite, nattempts, nread, nstarts, nframes, npushed,
                   popped, returned, g_terminate>>

(* ---------------------- GrpcClient::Impl::ReaderLoop ------------------- *)
\* mutant: a counter of one bit
Wrapped(n) == (n + 1) % 2

\* grpc_client.cpp:130, 297: ++ on a std::atomic<uint64_t>
Incremented(n) == n + 1

\* stream_->Read can hand over a message only while the RPC is alive
CanRead == /\ ~crashed
           /\ rpc = "read"
           /\ channel_ = "ready"
           /\ context_ = "live"
           /\ stream_ = "open"
           /\ nread < MaxReads

\* mutant: the signal is not raised
NoSignal == g_terminate' = g_terminate

\* raise(SIGTERM) runs signal_handler (main.cpp:20) in the raising thread
RaiseSIGTERM == g_terminate' = TRUE

\* grpc_client.cpp:124, 213: Read returns false (peer closed, RPC cancelled or
\* finished): the loop ends and the thread function returns
ReaderReadEnd ==
    /\ ~crashed
    /\ rpc = "read"
    /\ rpc' = "done"
    /\ UNCHANGED <<running_, context_, stream_, reader_thread_, writer_mtx_, frame_mtx_,
                   det_queue_, frame_queue_, sent_frames_, received_results_, pc, cmdbuf,
                   ret, crashed, lifetime, channel_, wake_rpcs, stopReturned, wire, inWrite, nattempts, nread, nstarts,
                   nframes, npushed, popped, returned, ackAt, g_terminate>>

\* mutant: a Detection is queued for every detection_result, boxes or not
ReaderDetectionQueuesAll(m) ==
    /\ CanRead
    /\ m.kind = "detection_result"
    /\ nread' = nread + 1
    /\ received_results_' = Incremented(received_results_)
    /\ npushed' = npushed + 1
    /\ det_queue_' = Append(det_queue_, npushed + 1)
    /\ UNCHANGED <<running_, context_, stream_, reader_thread_, writer_mtx_, frame_mtx_,
                   frame_queue_, sent_frames_, pc, rpc, cmdbuf, ret, crashed, lifetime, channel_, wake_rpcs,
                   stopReturned, wire, inWrite, nattempts, nstarts, nframes, popped, returned, ackAt,
                   g_terminate>>

\* grpc_client.cpp:129-184: count the result; queue a Detection when boxes parsed.
\* The push holds det_mtx_ for the one statement, hence it is one step.
ReaderDetection(m) ==
    /\ CanRead
    /\ m.kind = "detection_result"
    /\ nread' = nread + 1
    /\ received_results_' = Incremented(received_results_)
    /\ IF m.boxes > 0
         THEN /\ npushed' = npushed + 1
              /\ det_queue_' = Append(det_queue_, npushed + 1)
         ELSE UNCHANGED <<npushed, det_queue_>>
    /\ UNCHANGED <<running_, context_, stream_, reader_thread_, writer_mtx_, frame_mtx_,
                   frame_queue_, sent_frames_, pc, rpc, cmdbuf, ret, crashed, lifetime, channel_, wake_rpcs,
                   stopReturned, wire, inWrite, nattempts, nstarts, nframes, popped, returned, ackAt,
                   g_terminate>>

\* grpc_client.cpp:187-195: decode the JPEG; on success take frame_mtx_ and
\* push_back.  The size check of line 196 is the next step, still under the lock.
ReaderCameraFrame(m) ==
    /\ CanRead
    /\ m.kind = "camera_frame"
    /\ nread' = nread + 1
    /\ IF m.image = "jpeg"
         THEN /\ frame_mtx_ = NoThread
              /\ frame_mtx_' = "reader"
              /\ nframes' = nframes + 1
              /\ frame_queue_' = Append(frame_queue_, nframes + 1)
              /\ rpc' = "frame_locked"
         ELSE UNCHANGED <<frame_mtx_, nframes, frame_queue_, rpc>>
    /\ UNCHANGED <<running_, context_, stream_, reader_thread_, writer_mtx_, det_queue_,
                   sent_frames_, received_results_, pc, cmdbuf, ret, crashed, lifetime, channel_, wake_rpcs,
                   stopReturned, wire, inWrite, nattempts, nstarts, npushed, popped, returned, ackAt,
                   g_terminate>>

\* mutant: the bound test is off by one
EvictOldestLate(q) == IF Len(q) > FrameQueueCap + 1 THEN Tail(q) ELSE q

\* grpc_client.cpp:196: the bound of the frame queue
EvictOldest(q) == IF Len(q) > FrameQueueCap THEN Tail(q) ELSE q

\* grpc_client.cpp:196-197: evict, then the lock_guard releases frame_mtx_
ReaderFrameTrim ==
    /\ ~crashed
    /\ rpc = "frame_locked"
    /\ frame_queue_' = EvictOldest(frame_queue_)
    /\ frame_mtx_' = NoThread
    /\ rpc' = "read"
    /\ UNCHANGED <<running_, context_, stream_, reader_thread_, writer_mtx_, det_queue_,
                   sent_frames_, received_results_, pc, cmdbuf, ret, crashed, lifetime, channel_, wake_rpcs,
                   stopReturned, wire, inWrite, nattempts, nread, nstarts, nframes, npushed, popped,
                   returned, ackAt, g_terminate>>

\* grpc_client.cpp:204-211: terminate_ack raises SIGTERM and leaves the loop
ReaderConfigResponse(m) ==
    /\ CanRead
    /\ m.kind = "config_response"
    /\ nread' = nread + 1
    /\ IF m.message = "terminate_ack"
         THEN /\ RaiseSIGTERM
              /\ rpc' = "done"
              /\ ackAt' = nread + 1
         ELSE UNCHANGED <<g_terminate, rpc, ackAt>>
    /\ UNCHANGED <<running_, context_, stream_, reader_thread_, writer_mtx_, frame_mtx_,
                   det_queue_, frame_queue_, sent_frames_, received_results_, pc, cmdbuf,
                   ret, crashed, lifetime, channel_, wake_rpcs, stopReturned, wire, inWrite, nattempts, nstarts,
                   nframes, npushed, popped, returned>>

\* a message with none of the three variants the loop looks at
ReaderDeviceStatus(m) ==
    /\ CanRead
    /\ m.kind = "device_status"
    /\ nread' = nread + 1
    /\ UNCHANGED <<running_, context_, stream_, reader_thread_, writer_mtx_, frame_mtx_,
                   det_queue_, frame_queue_, sent_frames_, received_results_, pc, rpc,
                   cmdbuf, ret, crashed, lifetime, channel_, wake_rpcs, stopReturned, wire, inWrite, nattempts, nstarts,
                   nframes, npushed, popped, returned, ackAt, g_terminate>>

(* ------------------ PopDetections / PopRemoteFrame -------------------- *)
\* mutant: the queue is copied out and not emptied
CopyOut(q) == [out |-> q, rest |-> q]

\* grpc_client.cpp:319-321: out starts empty and is swapped with the queue
SwapOut(q) == [out |-> q, rest |-> <<>>]

\* mutant: the queue is handed out newest first
PopDetectionsNewestFirst(t) ==
    /\ CanCall(t)
    /\ returned' = returned \o [i \in 1..Len(det_queue_) |->
                                  det_queue_[Len(det_queue_) + 1 - i]]
    /\ det_queue_' = SwapOut(det_queue_).rest
    /\ Return(t, "pop_detections", "none")
    /\ UNCHANGED <<running_, context_, stream_, reader_thread_, writer_mtx_, frame_mtx_,
                   frame_queue_, sent_frames_, received_results_, rpc, cmdbuf, crashed,
                   lifetime, channel_, wake_rpcs, stopReturned, wire, inWrite, nattempts, nread, nstarts, nframes,
                   npushed, popped, ackAt, g_terminate>>

\* grpc_client.cpp:318-323: out.swap(det_queue_) under det_mtx_
PopDetections(t) ==
    /\ CanCall(t)
    /\ returned' = returned \o SwapOut(det_queue_).out
    /\ det_queue_' = SwapOut(det_queue_).rest
    /\ Return(t, "pop_detections", "none")
    /\ UNCHANGED <<running_, context_, stream_, reader_thread_, writer_mtx_, frame_mtx_,
                   frame_queue_, sent_frames_, received_results_, rpc, cmdbuf, crashed,
                   lifetime, channel_, wake_rpcs, stopReturned, wire, inWrite, nattempts, nread, nstarts, nframes,
                   npushed, popped, ackAt, g_terminate>>

\* mutant: the newest frame is taken
TakeBack(q) == [out |-> q[Len(q)], rest |-> SubSeq(q, 1, Len(q) - 1)]

\* grpc_client.cpp:329-330: out = front(); erase(begin())
TakeFront(q) == [out |-> Head(q), rest |-> Tail(q)]

\* grpc_client.cpp:326-332: front() and erase(begin()) under frame_mtx_
PopRemoteFrame(t) ==
    /\ CanCall(t)
    /\ frame_mtx_ = NoThread
    /\ IF frame_queue_ = <<>>
         THEN /\ Return(t, "pop_remote_frame", "false")
              /\ UNCHANGED <<frame_queue_, popped>>
         ELSE /\ popped' = Append(popped, TakeFront(frame_queue_).out)
              /\ frame_queue_' = TakeFront(frame_queue_).rest
              /\ Return(t, "pop_remote_frame", "true")
    /\ UNCHANGED <<running_, context_, stream_, reader_thread_, writer_mtx_, frame_mtx_,
                   det_queue_, sent_frames_, received_results_, rpc, cmdbuf, crashed,
                   lifetime, channel_, wake_rpcs, stopReturned, wire, inWrite, nattempts, nread, nstarts, nframes,
                   npushed, returned, ackAt, g_terminate>>

(* ------------------------- Command construction ----------------------- *)
\* mutant: the members are plain optional fields, each set independently
MutableFieldPlain(cmd, f) == [cmd EXCEPT !.variant = @ \cup {f}]

\* Command is a tagged variant (oneof): obtaining a mutable member makes it the
\* only member set and discards the payload of the member set before.
MutableField(cmd, f) == [variant |-> {f}, action |-> "none", image |-> "none"]

SetAction(cmd, a) == [cmd EXCEPT !.action = a]

\* grpc_client.cpp:218-263: the Command Send builds for a request text
\* (every text but "wakeup", which never reaches this point)
BuildCommand(text) ==
    LET typed ==
          IF text = "start_streaming"
            THEN SetAction(MutableField(NoCmd, "control_action"), "START_STREAMING")
          ELSE IF text = "stop_streaming"
            THEN SetAction(MutableField(NoCmd, "control_action"), "STOP_STREAMING")
          ELSE IF text = "reboot" \/ text = "32"
            THEN SetAction(MutableField(NoCmd, "control_action"), "REBOOT")
          ELSE MutableField(NoCmd, "detection_result")
    IN  MutableField(typed, "heartbeat")

\* grpc_client.cpp:277-287: the Command SendFrameInternal builds
BuildFrameCommand == [MutableField(NoCmd, "camera_frame") EXCEPT !.image = "jpeg"]

(* --------------- GrpcClient::Impl::Send / SendFrameInternal ----------- *)
\* outcomes of wake_stub->TriggerScript: wake_status.ok() as Send returns it
WakeUpResults == {"true", "false"}

\* grpc_client.cpp:254-265: the Command is built and the caller goes on to
\* take writer_mtx_
StreamCommand(t, text) ==
    /\ nattempts < MaxWrites
    /\ nattempts' = nattempts + 1
    /\ cmdbuf' = [cmdbuf EXCEPT ![t] = BuildCommand(text)]
    /\ pc' = [pc EXCEPT ![t] = "send_lock"]
    /\ UNCHANGED ret

\* mutant: after the wake-up RPC the Command is built and written all the same
WakeUpFallsThrough(t, rpc_ok) == StreamCommand(t, "wakeup")

\* grpc_client.cpp:251-252: one-shot RPC, no Command goes over the stream:
\* return wake_status.ok()
WakeUpReturns(t, rpc_ok) ==
    /\ Return(t, "send", rpc_ok)
    /\ UNCHANGED <<cmdbuf, nattempts>>

\* grpc_client.cpp:216-263: running check, wake-up RPC or Command construction
Send(t, text) ==
    /\ CanCall(t)
    /\ IF ~running_
         THEN /\ Return(t, "send", "false")
              /\ UNCHANGED <<cmdbuf, nattempts, wake_rpcs>>
         ELSE IF text = "wakeup"
           THEN /\ wake_rpcs < MaxWakeups
                /\ wake_rpcs' = wake_rpcs + 1
                /\ \E rpc_ok \in WakeUpResults : WakeUpReturns(t, rpc_ok)
           ELSE /\ StreamCommand(t, text)
                /\ UNCHANGED wake_rpcs
    /\ UNCHANGED <<running_, context_, stream_, reader_thread_, writer_mtx_, frame_mtx_,
                   det_queue_, frame_queue_, sent_frames_, received_results_, rpc,
                   crashed, lifetime, channel_, stopReturned, wire, inWrite, nread, nstarts,
                   nframes, npushed, popped, returned, ackAt, g_terminate>>

\* grpc_client.cpp:275-287: running check and Command construction
SendFrameInternal(t) ==
    /\ CanCall(t)
    /\ IF ~running_
         THEN /\ Return(t, "send_frame", "false")
              /\ UNCHANGED <<cmdbuf, nattempts>>
         ELSE /\ nattempts < MaxWrites
              /\ nattempts' = nattempts + 1
              /\ cmdbuf' = [cmdbuf EXCEPT ![t] = BuildFrameCommand]
              /\ pc' = [pc EXCEPT ![t] = "frame_lock"]
              /\ UNCHANGED ret
    /\ UNCHANGED <<running_, context_, stream_, reader_thread_, writer_mtx_, frame_mtx_,
                   det_queue_, frame_queue_, sent_frames_, received_results_, rpc,
                   crashed, lifetime, channel_, wake_rpcs, stopReturned, wire, inWrite, nread, nstarts,
                   nframes, npushed, popped, returned, ackAt, g_terminate>>

\* mutant: Write is entered without waiting for writer_mtx_
WriterUnguarded(t) == TRUE

\* grpc_client.cpp:265, 289: std::lock_guard<std::mutex> lk(writer_mtx_)
WriterGuard(t) == writer_mtx_ = NoThread

\* mutant: a failed write leaves running_ set
RunningKept(ok) == running_

\* grpc_client.cpp:268-270, 292-294: if (!ok) running_.store(false)
RunningAfterWrite(ok) == IF ok THEN running_ ELSE FALSE

OpOf(p) == IF p \in {"send_lock", "send_write"} THEN "send" ELSE "send_frame"

\* grpc_client.cpp:265-267 and 289-291: take writer_mtx_, test the handle and
\* enter stream_->Write
WriterLock(t) ==
    /\ ~crashed
    /\ pc[t] \in {"send_lock", "frame_lock"}
    /\ WriterGuard(t)
    /\ IF stream_ = "null"
         THEN /\ Return(t, OpOf(pc[t]), "false")
              /\ UNCHANGED <<writer_mtx_, inWrite>>
         ELSE /\ writer_mtx_' = t
              /\ inWrite' = inWrite \cup {t}
              /\ pc' = [pc EXCEPT ![t] = IF pc[t] = "send_lock" THEN "send_write"
                                                                ELSE "frame_write"]
              /\ UNCHANGED ret
    /\ UNCHANGED <<running_, context_, stream_, reader_thread_, frame_mtx_, det_queue_,
                   frame_queue_, sent_frames_, received_results_, rpc, cmdbuf, crashed,
                   lifetime, channel_, wake_rpcs, stopReturned, wire, nread, nstarts, nattempts, nframes,
                   npushed, popped, returned, ackAt, g_terminate>>

\* mutant: every Command written is counted as a frame
WriterWriteCountsAll(t) ==
    /\ ~crashed
    /\ pc[t] \in {"send_write", "frame_write"}
    /\ \E ok \in BOOLEAN :
          /\ ok => (stream_ = "open" /\ context_ = "live" /\ channel_ = "ready")
          /\ running_' = RunningAfterWrite(ok)
          /\ IF ok
               THEN /\ wire' = Append(wire, cmdbuf[t])
                    /\ sent_frames_' = Incremented(sent_frames_)
                    /\ Return(t, OpOf(pc[t]), "true")
               ELSE /\ Return(t, OpOf(pc[t]), "false")
                    /\ UNCHANGED <<wire, sent_frames_>>
    /\ writer_mtx_' = NoThread
    /\ inWrite' = inWrite \ {t}
    /\ UNCHANGED <<context_, stream_, reader_thread_, frame_mtx_, det_queue_,
                   frame_queue_, received_results_, rpc, cmdbuf, crashed, lifetime, channel_, wake_rpcs,
                   stopReturned, nread, nstarts, nattempts, nframes, npushed, popped,
                   returned, ackAt, g_terminate>>

\* grpc_client.cpp:267-272 and 291-298: Write returns; a failed write clears
\* running_; a written frame is counted; the lock_guard releases writer_mtx_
WriterWrite(t) ==
    /\ ~crashed
    /\ pc[t] \in {"send_write", "frame_write"}
    /\ \E ok \in BOOLEAN :
          /\ ok => (stream_ = "open" /\ context_ = "live" /\ channel_ = "ready")
          /\ running_' = RunningAfterWrite(ok)
          /\ IF ok
               THEN /\ wire' = Append(wire, cmdbuf[t])
                    /\ sent_frames_' = IF pc[t] = "frame_write" THEN Incremented(sent_frames_)
                                                                ELSE sent_frames_
                    /\ Return(t, OpOf(pc[t]), "true")
               ELSE /\ Return(t, OpOf(pc[t]), "false")
                    /\ UNCHANGED <<wire, sent_frames_>>
    /\ writer_mtx_' = NoThread
    /\ inWrite' = inWrite \ {t}
    /\ UNCHANGED <<context_, stream_, reader_thread_, frame_mtx_, det_queue_,
                   frame_queue_, received_results_, rpc, cmdbuf, crashed, lifetime, channel_, wake_rpcs,
                   stopReturned, nread, nstarts, nattempts, nframes, npushed, popped,
                   returned, ackAt, g_terminate>>

(* -------------------------- GrpcClient::Impl::Stop -------------------- *)
\* grpc_client.cpp:302-303: exchange the running flag; TryCancel the context
StopEnter(t) ==
    /\ IF ~running_
         THEN /\ Return(t, "stop", "none")
              /\ stopReturned' = TRUE
              /\ UNCHANGED <<running_, context_>>
         ELSE /\ running_' = FALSE
              /\ context_' = IF context_ = "null" THEN "null" ELSE "cancelled"
              /\ pc' = [pc EXCEPT ![t] = "stop_lock"]
              /\ UNCHANGED <<ret, stopReturned>>
    /\ UNCHANGED <<stream_, reader_thread_, writer_mtx_, frame_mtx_, det_queue_,
                   frame_queue_, sent_frames_, received_results_, rpc, cmdbuf, crashed,
                   wire, inWrite, nread, nstarts, nattempts, nframes, npushed, popped,
                   returned, ackAt, g_terminate>>

Stop(t) ==
    /\ CanCall(t)
    /\ StopEnter(t)
    /\ UNCHANGED <<lifetime, channel_, wake_rpcs>>

\* grpc_client.cpp:305-307: take writer_mtx_; enter WritesDone when there is a stream
StopLock(t) ==
    /\ ~crashed
    /\ pc[t] = "stop_lock"
    /\ writer_mtx_ = NoThread
    /\ IF stream_ = "null"
         THEN /\ pc' = [pc EXCEPT ![t] = "stop_join"]
              /\ UNCHANGED <<writer_mtx_, inWrite>>
         ELSE /\ writer_mtx_' = t
              /\ inWrite' = inWrite \cup {t}
              /\ pc' = [pc EXCEPT ![t] = "stop_writesdone"]
    /\ UNCHANGED <<running_, context_, stream_, reader_thread_, frame_mtx_, det_queue_,
                   frame_queue_, sent_frames_, received_results_, rpc, cmdbuf, ret,
                   crashed, lifetime, channel_, wake_rpcs, stopReturned, wire, nread, nstarts, nattempts,
                   nframes, npushed, popped, returned, ackAt, g_terminate>>

\* grpc_client.cpp:307-311: WritesDone and Finish return; writer_mtx_ is released
StopWritesDone(t) ==
    /\ ~crashed
    /\ pc[t] = "stop_writesdone"
    /\ stream_' = IF stream_ = "null" THEN "null" ELSE "finished"
    /\ writer_mtx_' = NoThread
    /\ inWrite' = inWrite \ {t}
    /\ pc' = [pc EXCEPT ![t] = "stop_join"]
    /\ UNCHANGED <<running_, context_, reader_thread_, frame_mtx_, det_queue_,
                   frame_queue_, sent_frames_, received_results_, rpc, cmdbuf, ret,
                   crashed, lifetime, channel_, wake_rpcs, stopReturned, wire, nread, nstarts, nattempts,
                   nframes, npushed, popped, returned, ackAt, g_terminate>>

\* grpc_client.cpp:312: join blocks until the reader's thread function returned
StopJoin(t) ==
    /\ ~crashed
    /\ pc[t] = "stop_join"
    /\ IF reader_thread_
         THEN /\ rpc = "done"
              /\ reader_thread_' = FALSE
              /\ rpc' = "none"
         ELSE UNCHANGED <<reader_thread_, rpc>>
    /\ pc' = [pc EXCEPT ![t] = "stop_reset"]
    /\ UNCHANGED <<running_, context_, stream_, writer_mtx_, frame_mtx_, det_queue_,
                   frame_queue_, sent_frames_, received_results_, cmdbuf, ret, crashed,
                   lifetime, channel_, wake_rpcs, stopReturned, wire, inWrite, nread, nstarts, nattempts,
                   nframes, npushed, popped, returned, ackAt, g_terminate>>

\* grpc_client.cpp:313-315: release the stream and the context, return
StopReset(t) ==
    /\ ~crashed
    /\ pc[t] = "stop_reset"
    /\ stream_' = "null"
    /\ context_' = "null"
    /\ Return(t, "stop", "none")
    /\ stopReturned' = TRUE
    /\ UNCHANGED <<running_, reader_thread_, writer_mtx_, frame_mtx_, det_queue_,
                   frame_queue_, sent_frames_, received_results_, rpc, cmdbuf, crashed,
                   lifetime, channel_, wake_rpcs, wire, inWrite, nread, nstarts, nattempts, nframes, npushed,
                   popped, returned, ackAt, g_terminate>>

(* ------------------ GrpcClient::~GrpcClient / ~Impl ------------------- *)
\* grpc_client.cpp:366: the destructor first calls Stop; no caller is inside
\* another operation of the object being destroyed
DestroyBegin(t) ==
    /\ CanCall(t)
    /\ \A u \in Callers : pc[u] = "idle"
    /\ lifetime' = "destroying"
    /\ UNCHANGED <<channel_, wake_rpcs>>
    /\ StopEnter(t)

\* grpc_client.cpp:119, 342: ~Impl calls Stop once more (a no-op: running_ is
\* false by now), then the members are destroyed; destroying a joinable
\* std::thread calls std::terminate
DestroyEnd(t) ==
    /\ ~crashed
    /\ lifetime = "destroying"
    /\ pc[t] = "idle"
    /\ ret.by = t
    /\ ret.op = "stop"
    /\ lifetime' = "destroyed"
    /\ UNCHANGED <<channel_, wake_rpcs>>
    /\ crashed' = reader_thread_
    /\ UNCHANGED <<running_, context_, stream_, reader_thread_, writer_mtx_, frame_mtx_,
                   det_queue_, frame_queue_, sent_frames_, received_results_, pc, rpc,
                   cmdbuf, ret, stopReturned, wire, inWrite, nread, nstarts, nattempts,
                   nframes, npushed, popped, returned, ackAt, g_terminate>>

(* ------------------ ComputeServiceImpl::Datastream -------------------- *)
ControlActions == {"START_STREAMING", "STOP_STREAMING", "REBOOT"}

\* camera ids (0: the field is unset) and frame timestamps ("none": no
\* timestamp) a peer puts into a CameraFrame
CameraIds == {0, 7}
Timestamps == {"none", "ts"}

\* sizes of the images a peer sends as JPEG payloads; rows and cols are what
\* cv::imdecode gives the cv::Mat (service_impl.cpp:49), 0 when it fails
FrameSizes == {[rows |-> 240, cols |-> 320], [rows |-> 480, cols |-> 640]}

\* Commands a peer can put on the wire: exactly one variant each
PeerCommands ==
    {[variant |-> {"control_action"}, action |-> a, image |-> "none",
      camera_id |-> 0, timestamp |-> "none", rows |-> 0, cols |-> 0] :
        a \in ControlActions}
    \cup {[variant |-> {"camera_frame"}, action |-> "none", image |-> "bad",
           camera_id |-> c, timestamp |-> ts, rows |-> 0, cols |-> 0] :
             c \in CameraIds, ts \in Timestamps}
    \cup {[variant |-> {"camera_frame"}, action |-> "none", image |-> "jpeg",
           camera_id |-> c, timestamp |-> ts, rows |-> sz.rows, cols |-> sz.cols] :
             c \in CameraIds, ts \in Timestamps, sz \in FrameSizes}
    \cup {[variant |-> {v}, action |-> "none", image |-> "none",
           camera_id |-> 0, timestamp |-> "none", rows |-> 0, cols |-> 0] :
             v \in {"heartbeat", "detection_result", "config_request"}}

\* service_impl.cpp:34-43: loop condition, cancellation test and stream->Read
CanServe == /\ hpc = "loop"
            /\ h_running
            /\ ~h_cancelled
            /\ h_nread < MaxCommands

\* service_impl.cpp:19-33: with a forward target the handler constructs one
\* GrpcClient and calls StartStreaming; started is what the call returns
\* (false: Impl::Start, grpc_client.cpp:108-112). On false the client is
\* destroyed and the handler goes on to its loop without one.
HandlerEnter(started) ==
    /\ hpc = "entry"
    /\ hpc' = "loop"
    /\ IF forward_target
         THEN /\ fwd_made' = fwd_made + 1
              /\ fwd_starts' = IF started THEN fwd_starts + 1 ELSE fwd_starts
              /\ forward_client' = IF started THEN "streaming" ELSE "null"
         ELSE UNCHANGED <<forward_client, fwd_made, fwd_starts>>
    /\ UNCHANGED <<h_running, h_write_mtx, h_cmd, h_sm, h_cancelled, h_status, lowlight,
                   s_wire, h_inWrite, h_nread, h_outcome, h_exit, h_ninfer,
                   forward_target, fwd_stops>>

\* the peer cancels the RPC
PeerCancel ==
    /\ hpc \in {"loop", "write"}
    /\ ~h_cancelled
    /\ h_cancelled' = TRUE
    /\ UNCHANGED <<hpc, h_running, h_write_mtx, h_cmd, h_sm, h_status, lowlight, s_wire,
                   h_inWrite, h_nread, h_outcome, h_exit, h_ninfer,
                   forward_target, forward_client, fwd_made, fwd_starts, fwd_stops>>

\* service_impl.cpp:35-38: context->IsCancelled() breaks the loop
HandlerCancelled ==
    /\ hpc = "loop"
    /\ h_running
    /\ h_cancelled
    /\ hpc' = "exit"
    /\ h_exit' = "cancelled"
    /\ UNCHANGED <<h_running, h_write_mtx, h_cmd, h_sm, h_cancelled, h_status, lowlight,
                   s_wire, h_inWrite, h_nread, h_outcome, h_ninfer,
                   forward_target, forward_client, fwd_made, fwd_starts, fwd_stops>>

\* service_impl.cpp:39-43: Read returns false, the client closed the stream
HandlerReadEnd ==
    /\ hpc = "loop"
    /\ h_running
    /\ ~h_cancelled
    /\ hpc' = "exit"
    /\ h_exit' = "closed"
    /\ UNCHANGED <<h_running, h_write_mtx, h_cmd, h_sm, h_cancelled, h_status, lowlight,
                   s_wire, h_inWrite, h_nread, h_outcome, h_ninfer,
                   forward_target, forward_client, fwd_made, fwd_starts, fwd_stops>>

\* service_impl.cpp:81, 108: the camera id is set on the reply when it is
\* nonzero in the request; an unset id reads as 0
ReplyCameraId(id) == IF id # 0 THEN id ELSE 0

\* service_impl.cpp:82, 109: the timestamp is copied when the request has one
ReplyTimestamp(ts) == IF ts # "none" THEN ts ELSE "none"

\* mutant: the output of the graph is returned at the size of the graph
LowlightUnresized(frame) == [rows |-> 400, cols |-> 600]

\* hailo_lowlight_enhance.cpp:37-42, 134-153: the frame is resized to the
\* input shape of the graph (here 400 x 600), the output of the graph has
\* that shape, and cv::resize(out_bgr, result_image, input_frame.size())
\* brings it to the cv::Size (width = cols, height = rows) of the frame
LowlightProcess(frame) ==
    LET out_bgr == [rows |-> 400, cols |-> 600]
        dsize == [width |-> frame.cols, height |-> frame.rows]
        Resized(src, size) == [src EXCEPT !.rows = size.height, !.cols = size.width]
    IN  Resized(out_bgr, dsize)

\* service_impl.cpp:60-88: the reply of the low-light branch; enhanced: the
\* enhancement succeeded, encoded: cv::imencode produced bytes (of the
\* enhanced image, or of the original frame when the enhancement failed)
LowlightReply(cmd, enhanced, encoded) ==
    LET frame == [rows |-> cmd.rows, cols |-> cmd.cols]
        lle_out == LowlightProcess(frame)
    IN  IF encoded
          THEN [kind |-> "camera_frame", boxes |-> 0, image |-> "jpeg",
                message |-> "none",
                width |-> IF enhanced THEN lle_out.cols ELSE frame.cols,
                height |-> IF enhanced THEN lle_out.rows ELSE frame.rows,
                camera_id |-> ReplyCameraId(cmd.camera_id),
                timestamp |-> ReplyTimestamp(cmd.timestamp)]
          ELSE NoMsg

\* hailo_object_detection.cpp:204-229: with return_image = false a successful
\* hailo_infer always fills result_json ("{"detections":[...],"count":n}")
InferJsonNonempty(kernel_ok) == kernel_ok

\* mutant: the reply does not take over the request's timestamp
DetectionReplyUnstamped(cmd, nonempty) ==
    IF nonempty
      THEN [kind |-> "detection_result", boxes |-> 0, image |-> "none", message |-> "none",
            camera_id |-> ReplyCameraId(cmd.camera_id), timestamp |-> "none"]
      ELSE NoMsg

\* service_impl.cpp:104-110: the reply of the detection branch; nonempty: the
\* JSON hailo_infer returned is not the empty string
DetectionReply(cmd, nonempty) ==
    IF nonempty
      THEN [kind |-> "detection_result", boxes |-> 0, image |-> "none", message |-> "none",
            camera_id |-> ReplyCameraId(cmd.camera_id),
            timestamp |-> ReplyTimestamp(cmd.timestamp)]
      ELSE NoMsg

\* mutant: a frame that does not decode ends the loop
BreakOnDecodeFailure == "exit"

\* service_impl.cpp:50-53: continue, back to the loop condition
AfterDecodeFailure == "loop"

\* what became of a camera frame: service_impl.cpp:49-50 (decode), 59-63
\* (enhancement), 99-100 (detection)
FrameOutcome(cmd, kernel_ok) ==
    IF cmd.image # "jpeg" THEN "decode_failed"
    ELSE IF lowlight THEN (IF kernel_ok THEN "enhance_ok" ELSE "enhance_failed")
    ELSE (IF kernel_ok THEN "infer_ok" ELSE "infer_failed")

\* service_impl.cpp:46-118: a camera frame is read; on a reply the handler
\* takes write_mtx and enters stream->Write
HandlerCameraFrame(cmd, kernel_ok, produced) ==
    /\ CanServe
    /\ "camera_frame" \in cmd.variant
    /\ h_nread' = h_nread + 1
    /\ h_cmd' = cmd
    /\ h_outcome' = FrameOutcome(cmd, kernel_ok)
    /\ h_ninfer' = IF FrameOutcome(cmd, kernel_ok) = "infer_ok" THEN h_ninfer + 1
                                                                ELSE h_ninfer
    /\ IF cmd.image # "jpeg"
         THEN /\ hpc' = AfterDecodeFailure
              /\ UNCHANGED <<h_sm, h_write_mtx, h_inWrite>>
         ELSE IF ~lowlight /\ ~kernel_ok
           THEN UNCHANGED <<hpc, h_sm, h_write_mtx, h_inWrite>>
           ELSE /\ h_sm' = IF lowlight
                             THEN LowlightReply(cmd, kernel_ok, produced)
                             ELSE DetectionReply(cmd, InferJsonNonempty(kernel_ok))
                /\ h_write_mtx = NoThread
                /\ h_write_mtx' = "handler"
                /\ h_inWrite' = h_inWrite \cup {"handler"}
                /\ hpc' = "write"
    /\ UNCHANGED <<h_running, h_cancelled, h_status, lowlight, s_wire, h_exit,
                   forward_target, forward_client, fwd_made, fwd_starts, fwd_stops>>

\* mutant: a failed reply write leaves running set
HandlerRunningKept(ok) == h_running

\* service_impl.cpp:89-92, 112-115: if (!stream->Write(sm)) running.store(false)
HandlerRunningAfterWrite(ok) == IF ok THEN h_running ELSE FALSE

\* service_impl.cpp:89-94 and 111-116: Write returns; the lock_guard releases
HandlerWrite ==
    /\ hpc = "write"
    /\ \E ok \in BOOLEAN :
          /\ ok => ~h_cancelled
          /\ h_running' = HandlerRunningAfterWrite(ok)
          /\ IF ok
               THEN /\ s_wire' = Append(s_wire, h_sm)
                    /\ hpc' = "loop"
                    /\ UNCHANGED h_exit
               ELSE /\ hpc' = "exit"
                    /\ h_exit' = "write_failed"
                    /\ UNCHANGED s_wire
    /\ h_write_mtx' = NoThread
    /\ h_inWrite' = h_inWrite \ {"handler"}
    /\ UNCHANGED <<h_cmd, h_sm, h_cancelled, h_status, lowlight, h_nread, h_outcome,
                   h_ninfer,
                   forward_target, forward_client, fwd_made, fwd_starts, fwd_stops>>

\* service_impl.cpp:122-133: a control action is read; only STOP_STREAMING
\* clears running and breaks, REBOOT and START_STREAMING are logged
HandlerControlAction(cmd) ==
    /\ CanServe
    /\ "camera_frame" \notin cmd.variant
    /\ "control_action" \in cmd.variant
    /\ h_nread' = h_nread + 1
    /\ h_cmd' = cmd
    /\ h_outcome' = "none"
    /\ IF cmd.action = "STOP_STREAMING"
         THEN /\ h_running' = FALSE
              /\ hpc' = "exit"
              /\ h_exit' = "stop"
         ELSE UNCHANGED <<h_running, hpc, h_exit>>
    /\ UNCHANGED <<h_write_mtx, h_sm, h_cancelled, h_status, lowlight, s_wire, h_inWrite,
                   h_ninfer,
                   forward_target, forward_client, fwd_made, fwd_starts, fwd_stops>>

\* service_impl.cpp:134-138: heartbeat (logged) and every other command
HandlerOther(cmd) ==
    /\ CanServe
    /\ "camera_frame" \notin cmd.variant
    /\ "control_action" \notin cmd.variant
    /\ h_nread' = h_nread + 1
    /\ h_cmd' = cmd
    /\ h_outcome' = "none"
    /\ UNCHANGED <<hpc, h_running, h_write_mtx, h_sm, h_cancelled, h_status, lowlight,
                   s_wire, h_inWrite, h_exit, h_ninfer,
                   forward_target, forward_client, fwd_made, fwd_starts, fwd_stops>>

\* mutant: the handler returns and leaves its forward client streaming
HandlerReturnKeepsForward ==
    /\ hpc = "exit"
    /\ hpc' = "done"
    /\ h_status' = "OK"
    /\ UNCHANGED <<h_running, h_write_mtx, h_cmd, h_sm, h_cancelled, lowlight, s_wire,
                   h_inWrite, h_nread, h_outcome, h_exit, h_ninfer,
                   forward_target, forward_client, fwd_made, fwd_starts, fwd_stops>>

\* service_impl.cpp:141-147: after the loop a forward client that is held is
\* stopped and destroyed; the handler returns Status::OK
HandlerReturn ==
    /\ hpc = "exit"
    /\ hpc' = "done"
    /\ h_status' = "OK"
    /\ IF forward_client # "null"
         THEN /\ fwd_stops' = fwd_stops + 1
              /\ forward_client' = "null"
         ELSE UNCHANGED <<forward_client, fwd_stops>>
    /\ UNCHANGED <<h_running, h_write_mtx, h_cmd, h_sm, h_cancelled, lowlight, s_wire,
                   h_inWrite, h_nread, h_outcome, h_exit, h_ninfer,
                   forward_target, fwd_made, fwd_starts>>

(* ----------------------------- GrpcServer ------------------------------ *)
\* outcomes of builder.BuildAndStart(): TRUE iff a server was started
BuildResults == BOOLEAN

\* mutant: the guard lets every caller in
NeverShuttingDown == FALSE

\* grpc_server.cpp:19-20: compare_exchange_strong(expected = false, true)
\* fails iff the flag is already set
AlreadyShuttingDown == shutting_down_

\* grpc_server.cpp:17-26: Shutdown is called by c; the first caller enters the body
ShutdownEnter(c) ==
    /\ sd[c] = "out"
    /\ IF AlreadyShuttingDown
         THEN UNCHANGED <<shutting_down_, sd, bodyRuns>>
         ELSE /\ shutting_down_' = TRUE
              /\ sd' = [sd EXCEPT ![c] = "server"]
              /\ bodyRuns' = bodyRuns + 1
    /\ UNCHANGED <<cq_thread_exited_, server_, cq_, cq_thread_, qpc, ready>>

\* grpc_server.cpp:29-32: server_->Shutdown(), the overload without a deadline:
\* it stops the listening ports and returns once the handlers of the
\* synchronous service that are running have returned
ShutdownServer(c) ==
    /\ sd[c] = "server"
    /\ server_ # "null" => hpc \in {"none", "done"}
    /\ server_' = IF server_ = "null" THEN "null" ELSE "shutdown"
    /\ sd' = [sd EXCEPT ![c] = "cq"]
    /\ UNCHANGED <<shutting_down_, cq_thread_exited_, cq_, cq_thread_, qpc, ready,
                   bodyRuns>>

\* grpc_server.cpp:35-38: cq_->Shutdown()
ShutdownQueue(c) ==
    /\ sd[c] = "cq"
    /\ cq_' = IF cq_ = "null" THEN "null" ELSE "shutdown"
    /\ sd' = [sd EXCEPT ![c] = "pump"]
    /\ UNCHANGED <<shutting_down_, cq_thread_exited_, server_, cq_thread_, qpc, ready,
                   bodyRuns>>

\* mutant: after the three seconds the wait is given up and the thread is
\* left as it is
ShutdownPumpGivesUp(c, timedOut) ==
    /\ sd[c] = "pump"
    /\ IF cq_thread_ = "joinable" /\ cq_thread_exited_
         THEN /\ qpc = "done"
              /\ cq_thread_' = "none"
              /\ qpc' = "none"
         ELSE /\ cq_thread_ = "joinable" => timedOut
              /\ UNCHANGED <<cq_thread_, qpc>>
    /\ sd' = [sd EXCEPT ![c] = "release"]
    /\ UNCHANGED <<shutting_down_, cq_thread_exited_, server_, cq_, ready, bodyRuns>>

\* grpc_server.cpp:41-63: wait for the pump's exit flag and join; timedOut:
\* the three seconds passed with the flag still clear, and the thread is detached
ShutdownPump(c, timedOut) ==
    /\ sd[c] = "pump"
    /\ IF cq_thread_ # "joinable"
         THEN UNCHANGED <<cq_thread_, qpc>>
         ELSE IF cq_thread_exited_
           THEN /\ qpc = "done"
                /\ cq_thread_' = "none"
                /\ qpc' = "none"
           ELSE /\ timedOut
                /\ cq_thread_' = "detached"
                /\ UNCHANGED qpc
    /\ sd' = [sd EXCEPT ![c] = "release"]
    /\ UNCHANGED <<shutting_down_, cq_thread_exited_, server_, cq_, ready, bodyRuns>>

\* grpc_server.cpp:66-74: server_.reset(); cq_.reset(); return
ShutdownRelease(c) ==
    /\ sd[c] = "release"
    /\ server_' = "null"
    /\ cq_' = "null"
    /\ sd' = [sd EXCEPT ![c] = "out"]
    /\ UNCHANGED <<shutting_down_, cq_thread_exited_, cq_thread_, qpc, ready, bodyRuns>>

\* grpc_server.cpp:83-100: bind, create the queue, build and start; on failure
\* the queue is shut down and released, the promise gets the exception and
\* Start returns
ServerBuild ==
    /\ spc = "build"
    /\ \E built \in BuildResults :
          IF built
            THEN /\ server_' = "serving"
                 /\ cq_' = "open"
                 /\ spc' = "reset_flags"
                 /\ UNCHANGED ready
            ELSE /\ server_' = "null"
                 /\ cq_' = "null"
                 /\ ready' = "exception"
                 /\ spc' = "returned"
    /\ UNCHANGED <<shutting_down_, cq_thread_exited_, cq_thread_, qpc, sd, bodyRuns,
                   mpc, server_thread, exitcode>>

\* grpc_server.cpp:103-104: both flags are cleared
ServerResetFlags ==
    /\ spc = "reset_flags"
    /\ cq_thread_exited_' = FALSE
    /\ shutting_down_' = FALSE
    /\ spc' = "spawn_pump"
    /\ UNCHANGED <<server_, cq_, cq_thread_, qpc, sd, ready, bodyRuns,
                   mpc, server_thread, exitcode>>

\* grpc_server.cpp:105-120: the pump thread is started
ServerSpawnPump ==
    /\ spc = "spawn_pump"
    /\ cq_thread_' = "joinable"
    /\ qpc' = "next"
    /\ spc' = "ready"
    /\ UNCHANGED <<shutting_down_, cq_thread_exited_, server_, cq_, sd, ready, bodyRuns,
                   mpc, server_thread, exitcode>>

\* grpc_server.cpp:122-123: ready.set_value()
ServerReady ==
    /\ spc = "ready"
    /\ ready' = "value"
    /\ spc' = "wait"
    /\ UNCHANGED <<shutting_down_, cq_thread_exited_, server_, cq_, cq_thread_, qpc, sd,
                   bodyRuns, mpc, server_thread, exitcode>>

\* grpc_server.cpp:124-127: server_->Wait() returns once the server was shut
\* down; Start then calls Shutdown
ServerWaitReturns ==
    /\ spc = "wait"
    /\ server_ # "serving"
    /\ ShutdownEnter("server")
    /\ spc' = "in_shutdown"
    /\ UNCHANGED <<mpc, server_thread, exitcode>>

\* grpc_server.cpp:127-128: Shutdown has returned and Start returns
ServerReturn ==
    /\ spc = "in_shutdown"
    /\ sd["server"] = "out"
    /\ spc' = "returned"
    /\ UNCHANGED <<srvVars, mpc, server_thread, exitcode>>

\* grpc_server.cpp:109-112: cq_->Next returns false once the queue is shut
\* down and drained
PumpNextEnds ==
    /\ qpc = "next"
    /\ cq_ # "open"
    /\ qpc' = "exiting"
    /\ UNCHANGED <<shutting_down_, cq_thread_exited_, server_, cq_, cq_thread_, sd, ready,
                   bodyRuns, flowVars>>

\* grpc_server.cpp:118-119: the pump signals its exit and returns
PumpExit ==
    /\ qpc = "exiting"
    /\ cq_thread_exited_' = TRUE
    /\ qpc' = "done"
    /\ UNCHANGED <<shutting_down_, server_, cq_, cq_thread_, sd, ready, bodyRuns,
                   flowVars>>

(* ------------------------------- main() -------------------------------- *)
\* what of main's and the server's state a client call made by main leaves alone
MainCalls == UNCHANGED <<handlerVars, hailoVars, libVars, srvVars, spc, server_thread, exitcode>>

\* keys cv::waitKey can report: 'w', ESC, or none within the frame delay
Keys == {"w", "esc", "none"}

\* init.cpp:6-13: the server thread is started and runs server.Start(started)
MainInitSystem ==
    /\ mpc = "init_system"
    /\ server_thread' = TRUE
    /\ spc' = "build"
    /\ mpc' = "init_wait"
    /\ UNCHANGED <<clientState, handlerVars, hailoVars, libVars, srvVars, exitcode>>

\* mutant: init_system returns true whatever the promise carries
MainInitWaitIgnoresError ==
    /\ mpc = "init_wait"
    /\ ready # "unset"
    /\ mpc' = "open_video"
    /\ UNCHANGED <<server_thread, exitcode>>
    /\ UNCHANGED <<clientState, handlerVars, hailoVars, libVars, srvVars, spc>>

\* init.cpp:16-25, main.cpp:102-105: started_fut.get(); on the exception the
\* server thread is joined, init_system returns false and main returns 1
MainInitWait ==
    /\ mpc = "init_wait"
    /\ ready # "unset"
    /\ IF ready = "value"
         THEN /\ mpc' = "open_video"
              /\ UNCHANGED <<server_thread, exitcode>>
         ELSE /\ spc = "returned"
              /\ server_thread' = FALSE
              /\ exitcode' = "1"
              /\ mpc' = "destroy_server"
    /\ UNCHANGED <<clientState, handlerVars, hailoVars, libVars, srvVars, spc>>

\* main.cpp:110-115: the video source is opened; on failure shutdown_system
\* is called and main returns 1
MainOpenVideo(opened) ==
    /\ mpc = "open_video"
    /\ IF opened
         THEN mpc' = "construct_client" /\ UNCHANGED exitcode
         ELSE mpc' = "shutdown_system" /\ exitcode' = "1"
    /\ UNCHANGED <<clientState, handlerVars, hailoVars, libVars, srvVars, spc, server_thread>>

\* main.cpp:125: GrpcClient client(target)
MainConstructClient ==
    /\ mpc = "construct_client"
    /\ lifetime = "unborn"
    /\ lifetime' = "alive"
    /\ UNCHANGED <<channel_, wake_rpcs>>
    /\ mpc' = "start_client"
    /\ UNCHANGED <<running_, context_, stream_, reader_thread_, writer_mtx_, frame_mtx_,
                   det_queue_, frame_queue_, sent_frames_, received_results_, pc, rpc,
                   cmdbuf, ret, crashed, stopReturned, wire, inWrite, nread, nstarts,
                   nattempts, nframes, npushed, popped, returned, ackAt, g_terminate>>
    /\ MainCalls

\* main.cpp:126: client.StartStreaming()
MainStartStreaming ==
    /\ mpc = "start_client"
    /\ StartBegin(MainCaller)
    /\ mpc' = "wakeup"
    /\ MainCalls

\* main.cpp:136: client.SendRequest("wakeup"), the result is ignored
MainWakeup ==
    /\ mpc = "wakeup"
    /\ Send(MainCaller, "wakeup")
    /\ mpc' = "poll"
    /\ MainCalls

\* main.cpp:137-138: while (!g_terminate.load() && cap.read(frame)), and the
\* break on an empty frame; the source holds no more frames than MaxWrites
MainPoll ==
    /\ mpc = "poll"
    /\ pc[MainCaller] = "idle"
    /\ IF g_terminate
         THEN mpc' = "stop_client"
         ELSE \E got \in BOOLEAN :
                 IF got /\ nattempts < MaxWrites
                   THEN mpc' = "send_frame"
                   ELSE mpc' = "stop_client"
    /\ UNCHANGED <<clientState, handlerVars, hailoVars, libVars, srvVars, spc, server_thread, exitcode>>

\* main.cpp:148: ok = client.SendFrame(...)
MainSendFrame ==
    /\ mpc = "send_frame"
    /\ SendFrameInternal(MainCaller)
    /\ mpc' = "sent"
    /\ MainCalls

\* main.cpp:149: if (!ok) break
MainSent ==
    /\ mpc = "sent"
    /\ pc[MainCaller] = "idle"
    /\ mpc' = IF ret.val = "false" THEN "stop_client" ELSE "pop_det"
    /\ UNCHANGED <<clientState, handlerVars, hailoVars, libVars, srvVars, spc, server_thread, exitcode>>

\* main.cpp:207: client.PopDetections()
MainPopDetections ==
    /\ mpc = "pop_det"
    /\ PopDetections(MainCaller)
    /\ mpc' = "pop_frame"
    /\ MainCalls

\* main.cpp:212: client.PopRemoteFrame(...)
MainPopRemoteFrame ==
    /\ mpc = "pop_frame"
    /\ PopRemoteFrame(MainCaller)
    /\ mpc' = "key"
    /\ MainCalls

\* main.cpp:236-245: 'w' sends "start_streaming", ESC leaves the loop
MainKey(key) ==
    /\ mpc = "key"
    /\ IF key = "w"
         THEN /\ Send(MainCaller, "start_streaming")
              /\ mpc' = "poll"
         ELSE /\ mpc' = IF key = "esc" THEN "stop_client" ELSE "poll"
              /\ UNCHANGED clientState
    /\ MainCalls

\* main.cpp:258: client.StopStreaming()
MainStopStreaming ==
    /\ mpc = "stop_client"
    /\ Stop(MainCaller)
    /\ mpc' = "shutdown_system"
    /\ MainCalls

\* init.cpp:31: server.Shutdown(), called at main.cpp:113 and main.cpp:259
MainShutdownSystem ==
    /\ mpc = "shutdown_system"
    /\ pc[MainCaller] = "idle"
    /\ ShutdownEnter("main")
    /\ mpc' = "join_server"
    /\ UNCHANGED <<clientState, handlerVars, hailoVars, libVars, spc, server_thread, exitcode>>

\* init.cpp:32, main.cpp:114, 260: Shutdown has returned; the server thread is
\* joined and main returns
MainJoinServer ==
    /\ mpc = "join_server"
    /\ sd["main"] = "out"
    /\ server_thread => spc = "returned"
    /\ server_thread' = FALSE
    /\ exitcode' = IF exitcode = "none" THEN "0" ELSE exitcode
    /\ mpc' = IF lifetime = "alive" THEN "destroy_client" ELSE "destroy_server"
    /\ UNCHANGED <<clientState, handlerVars, hailoVars, libVars, srvVars, spc>>

\* main.cpp:261: client goes out of scope
MainDestroyClient ==
    /\ mpc = "destroy_client"
    /\ DestroyBegin(MainCaller)
    /\ UNCHANGED mpc
    /\ MainCalls

MainDestroyClientEnd ==
    /\ mpc = "destroy_client"
    /\ DestroyEnd(MainCaller)
    /\ mpc' = "destroy_server"
    /\ MainCalls

\* grpc_server.cpp:13-15: server goes out of scope, ~GrpcServer calls Shutdown
MainDestroyServer ==
    /\ mpc = "destroy_server"
    /\ ShutdownEnter("main")
    /\ mpc' = "destroying_server"
    /\ UNCHANGED <<clientState, handlerVars, hailoVars, libVars, spc, server_thread, exitcode>>

\* the members of GrpcServer are destroyed; destroying a joinable cq_thread_
\* calls std::terminate
MainExit ==
    /\ mpc = "destroying_server"
    /\ sd["main"] = "out"
    /\ mpc' = "exited"
    /\ exitcode' = IF cq_thread_ = "joinable" THEN "terminate" ELSE exitcode
    /\ UNCHANGED <<clientState, handlerVars, hailoVars, libVars, srvVars, spc, server_thread>>

(* ----------------------------- HailoManager ---------------------------- *)
\* where HailoManager::init can fail: VDevice::create, create_infer_model,
\* get_input_vstream_infos, configure (hailo_manager.cpp:21-53)
InitOutcomes == {"ok", "no_device", "no_model", "no_shape", "no_config"}

\* where get_or_create_model can fail once the device is there:
\* create_infer_model, configure (hailo_manager.cpp:106-117)
LoadOutcomes == {"ok", "no_model", "no_config"}

CanCallManager == hm_calls < MaxManagerCalls

\* mutant: a failure after the device was created leaves the device in place
HailoInitKeepsDevice(path, outcome) ==
    /\ CanCallManager
    /\ hm_calls' = hm_calls + 1
    /\ IF configured_infer_model_ # 0
         THEN /\ hm_out' = [op |-> "init", path |-> path, ok |-> TRUE, pair |-> NoPair]
              /\ UNCHANGED <<vdevice_, infer_model_, configured_infer_model_, input_shape_,
                             input_frame_size_, hm_made, hm_default>>
         ELSE /\ hm_out' = [op |-> "init", path |-> path, ok |-> outcome = "ok",
                            pair |-> NoPair]
              /\ vdevice_' = IF outcome = "no_device" THEN vdevice_ ELSE hm_made + 1
              /\ infer_model_' = IF outcome = "ok" THEN hm_made + 2
                                 ELSE IF outcome \in {"no_device", "no_model"}
                                   THEN infer_model_ ELSE 0
              /\ configured_infer_model_' = IF outcome = "ok" THEN hm_made + 3 ELSE 0
              /\ input_shape_' = IF outcome \in {"ok", "no_config"} THEN hm_made + 2
                                                                   ELSE input_shape_
              /\ input_frame_size_' = IF outcome \in {"ok", "no_config"}
                                        THEN 1 ELSE input_frame_size_
              /\ hm_made' = hm_made + (IF outcome = "ok" THEN 3
                                       ELSE IF outcome = "no_device" THEN 0
                                       ELSE IF outcome = "no_model" THEN 1 ELSE 2)
              /\ hm_default' = IF outcome = "ok" THEN path ELSE hm_default
    /\ UNCHANGED <<extra_infer_models_, extra_configured_models_, hm_first, hm_loads>>

\* hailo_manager.cpp:13-58, under mtx_ from the first line to the return
HailoInit(path, outcome) ==
    /\ CanCallManager
    /\ hm_calls' = hm_calls + 1
    /\ IF configured_infer_model_ # 0
         THEN /\ hm_out' = [op |-> "init", path |-> path, ok |-> TRUE, pair |-> NoPair]
              /\ UNCHANGED <<vdevice_, infer_model_, configured_infer_model_, input_shape_,
                             input_frame_size_, hm_made, hm_default>>
         ELSE /\ hm_out' = [op |-> "init", path |-> path, ok |-> outcome = "ok",
                            pair |-> NoPair]
              /\ vdevice_' = IF outcome = "ok" THEN hm_made + 1
                             ELSE IF outcome = "no_device" THEN vdevice_ ELSE 0
              /\ infer_model_' = IF outcome = "ok" THEN hm_made + 2
                                 ELSE IF outcome \in {"no_device", "no_model"}
                                   THEN infer_model_ ELSE 0
              /\ configured_infer_model_' = IF outcome = "ok" THEN hm_made + 3 ELSE 0
              /\ input_shape_' = IF outcome \in {"ok", "no_config"} THEN hm_made + 2
                                                                   ELSE input_shape_
              /\ input_frame_size_' = IF outcome \in {"ok", "no_config"}
                                        THEN 1 ELSE input_frame_size_
              /\ hm_made' = hm_made + (IF outcome = "ok" THEN 3
                                       ELSE IF outcome = "no_device" THEN 0
                                       ELSE IF outcome = "no_model" THEN 1 ELSE 2)
              /\ hm_default' = IF outcome = "ok" THEN path ELSE hm_default
    /\ UNCHANGED <<extra_infer_models_, extra_configured_models_, hm_first, hm_loads>>

\* hailo_manager.cpp:60-67
HailoCleanup ==
    /\ CanCallManager
    /\ hm_calls' = hm_calls + 1
    /\ configured_infer_model_' = 0
    /\ infer_model_' = 0
    /\ vdevice_' = 0
    /\ input_frame_size_' = 0
    /\ hm_out' = [op |-> "cleanup", path |-> "none", ok |-> TRUE, pair |-> NoPair]
    /\ UNCHANGED <<input_shape_, extra_infer_models_, extra_configured_models_, hm_made,
                   hm_first, hm_loads, hm_default>>

\* mutant: the lookup never finds the path
NeverCached(path) == FALSE

\* hailo_manager.cpp:96-97: extra_configured_models_.find(hef_path) != end()
IsCached(path) == extra_configured_models_[path] # 0

\* hailo_manager.cpp:91-128, under mtx_ from the first line to the return
GetOrCreateModel(path, outcome) ==
    /\ CanCallManager
    /\ hm_calls' = hm_calls + 1
    /\ IF IsCached(path)
         THEN /\ hm_out' = [op |-> "get_or_create", path |-> path, ok |-> TRUE,
                            pair |-> [infer |-> extra_infer_models_[path],
                                      configured |-> extra_configured_models_[path]]]
              /\ UNCHANGED <<extra_infer_models_, extra_configured_models_, hm_made,
                             hm_first, hm_loads>>
         ELSE IF vdevice_ = 0
           THEN /\ hm_out' = [op |-> "get_or_create", path |-> path, ok |-> FALSE,
                              pair |-> NoPair]
                /\ UNCHANGED <<extra_infer_models_, extra_configured_models_, hm_made,
                               hm_first, hm_loads>>
           ELSE /\ hm_loads' = [hm_loads EXCEPT ![path] = @ + 1]
                /\ IF outcome = "ok"
                     THEN LET pair == [infer |-> hm_made + 1, configured |-> hm_made + 2]
                          IN  /\ extra_infer_models_' =
                                    [extra_infer_models_ EXCEPT ![path] = pair.infer]
                              /\ extra_configured_models_' =
                                    [extra_configured_models_ EXCEPT ![path] = pair.configured]
                              /\ hm_made' = hm_made + 2
                              /\ hm_out' = [op |-> "get_or_create", path |-> path,
                                            ok |-> TRUE, pair |-> pair]
                              /\ hm_first' = IF hm_first[path] = NoPair
                                               THEN [hm_first EXCEPT ![path] = pair]
                                               ELSE hm_first
                     ELSE /\ hm_made' = hm_made + (IF outcome = "no_model" THEN 0 ELSE 1)
                          /\ hm_out' = [op |-> "get_or_create", path |-> path,
                                        ok |-> FALSE, pair |-> NoPair]
                          /\ UNCHANGED <<extra_infer_models_, extra_configured_models_,
                                         hm_first>>
    /\ UNCHANGED <<vdevice_, infer_model_, configured_infer_model_, input_shape_,
                   input_frame_size_, hm_default>>

(* ------------------------------ hailo_infer ---------------------------- *)
\* hailo_object_detection.cpp:26-29
SetDetectionThreshold(t) ==
    /\ g_detection_threshold' = t
    /\ UNCHANGED <<nms_bboxes, result_json, infer_ret>>

\* mutant: a score equal to the threshold is dropped
StrictlyAbove(score, t) == score > t

\* hailo_object_detection.cpp:197: bbox.bbox.score >= g_detection_threshold
AboveThreshold(score, t) == score >= t

\* hailo_object_detection.cpp:195-200: the loop that fills filtered_bboxes
RECURSIVE FilterBboxes(_, _)
FilterBboxes(bboxes, t) ==
    IF bboxes = <<>> THEN <<>>
    ELSE LET rest == FilterBboxes(Tail(bboxes), t)
         IN  IF AboveThreshold(Head(bboxes).score, t) THEN <<Head(bboxes)>> \o rest
                                                     ELSE rest

\* hailo_object_detection.cpp:213-224: the JSON object of one detection; the
\* class name is get_coco_name_from_int (hailo_utils.cpp:23-33), the score is
\* printed with "%.4f": four decimals, rounded, so in units of 0.0001
JsonObject(bbox) ==
    [class |-> IF bbox.class_id = 1 THEN "bike"
               ELSE IF bbox.class_id = 2 THEN "car"
               ELSE IF bbox.class_id = 3 THEN "person"
               ELSE IF bbox.class_id = 0 THEN "__background__" ELSE "N/A",
     class_id |-> bbox.class_id,
     score |-> (bbox.score + 5) \div 10]

\* hailo_object_detection.cpp:207-228: the objects in the order of
\* filtered_bboxes, then "count": filtered_bboxes.size()
BuildJson(filtered) ==
    [detections |-> [i \in 1..Len(filtered) |-> JsonObject(filtered[i])],
     count |-> Len(filtered)]

\* hailo_object_detection.cpp:91-229 with return_image = false; run_ok: the
\* bindings, the buffers and configured_infer_model->run succeeded (116-170)
HailoInfer(run_ok) ==
    /\ infer_ret = "none"
    /\ IF run_ok
         THEN /\ result_json' = BuildJson(FilterBboxes(nms_bboxes, g_detection_threshold))
              /\ infer_ret' = "0"
         ELSE /\ infer_ret' = "-1"
              /\ UNCHANGED result_json
    /\ UNCHANGED <<g_detection_threshold, nms_bboxes>>

(* ---------------------------- parse_nms_data --------------------------- *)
\* hailo_utils.cpp:81-94, one iteration of the loop over the classes. count
\* is det_count, the float at data + offset converted to uint32_t (line 82):
\* whatever the buffer holds there, or whatever lies behind the buffer when
\* offset is past its end; the function is given no size and tests none.
\* Each record is one hailo_bbox_float32_t, five floats (lines 86-87).
ParseNmsData(count) ==
    /\ nms_class < ClassCount
    /\ nms_offset' = nms_offset + 1 + 5 * count
    /\ nms_out' = nms_out \o [j \in 1..count |-> nms_class + 1]
    /\ nms_class' = nms_class + 1
    /\ UNCHANGED <<nms_size, g_detection_threshold, nms_bboxes, result_json, infer_ret,
                   parserVars, g_hailo_ctx, hi_pc, hi_ret, hi_calls, hi_made, hi_done>>

(* ------------------------------ hailo_init ----------------------------- *)
\* hailo_object_detection.cpp:36-80, one statement group of thread t per step:
\* VDevice::create (38-43), create_infer_model (46-51), the input shape
\* (54-62), configure (69-79); ok: the driver call of the step succeeded.
\* There is no lock and no test of what g_hailo_ctx already holds: every
\* call creates a device, and each step reads and writes the members of the
\* one static context whichever thread wrote them last. A failing step
\* returns -1 and leaves the members written so far.
hailo_init(t, ok) ==
    /\ IF hi_pc[t] = "idle"
         THEN /\ hi_calls < MaxInitCalls
              /\ hi_calls' = hi_calls + 1
         ELSE UNCHANGED hi_calls
    /\ IF ~ok
         THEN /\ hi_pc' = [hi_pc EXCEPT ![t] = "idle"]
              /\ hi_ret' = [hi_ret EXCEPT ![t] = "-1"]
              /\ UNCHANGED <<g_hailo_ctx, hi_made, hi_done>>
         ELSE CASE hi_pc[t] = "idle" ->
                     /\ g_hailo_ctx' = [g_hailo_ctx EXCEPT !.vdevice = hi_made + 1]
                     /\ hi_made' = hi_made + 1
                     /\ hi_pc' = [hi_pc EXCEPT ![t] = "model"]
                     /\ hi_ret' = [hi_ret EXCEPT ![t] = "none"]
                     /\ UNCHANGED hi_done
                [] hi_pc[t] = "model" ->
                     /\ g_hailo_ctx' = [g_hailo_ctx EXCEPT !.infer_model = hi_made + 1]
                     /\ hi_made' = hi_made + 1
                     /\ hi_pc' = [hi_pc EXCEPT ![t] = "shape"]
                     /\ UNCHANGED <<hi_ret, hi_done>>
                [] hi_pc[t] = "shape" ->
                     /\ g_hailo_ctx' = [g_hailo_ctx EXCEPT !.input_shape = g_hailo_ctx.infer_model]
                     /\ hi_pc' = [hi_pc EXCEPT ![t] = "configure"]
                     /\ UNCHANGED <<hi_ret, hi_made, hi_done>>
                [] hi_pc[t] = "configure" ->
                     /\ g_hailo_ctx' = [g_hailo_ctx EXCEPT
                                          !.configured_infer_model = hi_made + 1]
                     /\ hi_made' = hi_made + 1
                     /\ hi_done' = hi_done + 1
                     /\ hi_pc' = [hi_pc EXCEPT ![t] = "idle"]
                     /\ hi_ret' = [hi_ret EXCEPT ![t] = "0"]
    /\ UNCHANGED <<g_detection_threshold, nms_bboxes, result_json, infer_ret, parserVars,
                   nmsVars>>

(* ------------------------ parse_bboxes_from_json ----------------------- *)
\* grpc_client.cpp:27: GrpcClient::BBox b{}
ZeroBox == [x |-> 0, y |-> 0, w |-> 0, h |-> 0, score |-> 0, label |-> ""]

\* mutant: the box is pushed whatever its width and height
BoxOfBlockUnchecked(o) ==
    <<[ZeroBox EXCEPT !.x = o.n[1], !.y = o.n[2],
                      !.w = IF o.n[3] > 0 THEN o.n[3] - o.n[1] ELSE 0,
                      !.h = IF o.n[4] > 0 THEN o.n[4] - o.n[2] ELSE 0]>>

\* grpc_client.cpp:27-66: the box read from one match of det_re, <<>> when
\* it is not pushed; the array form of lines 44-52 needs "bbox" followed by
\* "[" and the match has "bbox" followed by "{"
BoxOfBlock(o) ==
    LET x_max == o.n[3]
        y_max == o.n[4]
        b1 == [ZeroBox EXCEPT !.x = o.n[1], !.y = o.n[2]]
        b2 == [b1 EXCEPT !.w = IF x_max > 0 THEN x_max - b1.x ELSE 0,
                         !.h = IF y_max > 0 THEN y_max - b1.y ELSE 0]
        b3 == [b2 EXCEPT !.label = IF "class" \in o.fields THEN "car" ELSE "",
                         !.score = IF "score" \in o.fields THEN 9 ELSE 0]
    IN  IF b3.w > 0 /\ b3.h > 0
          THEN <<[b3 EXCEPT !.x = IF b3.x < 0 THEN 0 ELSE b3.x,
                            !.y = IF b3.y < 0 THEN 0 ELSE b3.y]>>
          ELSE <<>>

\* grpc_client.cpp:22-25, 68: the loop over the matches of det_re, an object
\* whose "bbox" is followed by a block in braces
RECURSIVE ParseBlocks(_)
ParseBlocks(text) ==
    IF text = <<>> THEN <<>>
    ELSE (IF Head(text).bbox = "object" THEN BoxOfBlock(Head(text)) ELSE <<>>)
           \o ParseBlocks(Tail(text))

\* grpc_client.cpp:73-85: the loop over the arrays of four or five numbers;
\* the score is the fifth element, the label stays empty
RECURSIVE ParseArrays(_)
ParseArrays(text) ==
    IF text = <<>> THEN <<>>
    ELSE LET o == Head(text)
             b == [ZeroBox EXCEPT !.x = o.n[1], !.y = o.n[2], !.w = o.n[3], !.h = o.n[4],
                                  !.score = IF o.len = 5 THEN 5 ELSE 0]
         IN  (IF o.bbox = "array" /\ b.w > 0 /\ b.h > 0 THEN <<b>> ELSE <<>>)
               \o ParseArrays(Tail(text))

\* grpc_client.cpp:16-91
ParseBboxesFromJson ==
    /\ ~parse_called
    /\ parse_called' = TRUE
    /\ parse_res' = IF ParseBlocks(json_text) # <<>> THEN ParseBlocks(json_text)
                                                   ELSE ParseArrays(json_text)
    /\ UNCHANGED <<json_text, sm>>

(* --------------------------- specifications --------------------------- *)
\* the reader thread
ReaderLoop ==
    \/ ReaderReadEnd
    \/ \E m \in ServerMessages : ReaderDetection(m)
    \/ \E m \in ServerMessages : ReaderCameraFrame(m)
    \/ ReaderFrameTrim
    \/ \E m \in ServerMessages : ReaderConfigResponse(m)
    \/ \E m \in ServerMessages : ReaderDeviceStatus(m)

\* the client under concurrent callers of its lifecycle and send operations
NextClient ==
    \/ \E t \in Callers : StartBegin(t) /\ UNCHANGED <<handlerVars, hailoVars, libVars, srvVars, flowVars>>
    \/ \E t \in Callers : StartLaunch(t) /\ UNCHANGED <<handlerVars, hailoVars, libVars, srvVars, flowVars>>
    \/ \E t \in Callers, text \in Texts : Send(t, text) /\ UNCHANGED <<handlerVars, hailoVars, libVars, srvVars, flowVars>>
    \/ \E t \in Callers : SendFrameInternal(t) /\ UNCHANGED <<handlerVars, hailoVars, libVars, srvVars, flowVars>>
    \/ \E t \in Callers : WriterLock(t) /\ UNCHANGED <<handlerVars, hailoVars, libVars, srvVars, flowVars>>
    \/ \E t \in Callers : WriterWrite(t) /\ UNCHANGED <<handlerVars, hailoVars, libVars, srvVars, flowVars>>
    \/ \E t \in Callers : Stop(t) /\ UNCHANGED <<handlerVars, hailoVars, libVars, srvVars, flowVars>>
    \/ \E t \in Callers : StopLock(t) /\ UNCHANGED <<handlerVars, hailoVars, libVars, srvVars, flowVars>>
    \/ \E t \in Callers : StopWritesDone(t) /\ UNCHANGED <<handlerVars, hailoVars, libVars, srvVars, flowVars>>
    \/ \E t \in Callers : StopJoin(t) /\ UNCHANGED <<handlerVars, hailoVars, libVars, srvVars, flowVars>>
    \/ \E t \in Callers : StopReset(t) /\ UNCHANGED <<handlerVars, hailoVars, libVars, srvVars, flowVars>>
    \/ \E t \in Callers : DestroyBegin(t) /\ UNCHANGED <<handlerVars, hailoVars, libVars, srvVars, flowVars>>
    \/ \E t \in Callers : DestroyEnd(t) /\ UNCHANGED <<handlerVars, hailoVars, libVars, srvVars, flowVars>>
    \/ ReaderReadEnd /\ UNCHANGED <<handlerVars, hailoVars, libVars, srvVars, flowVars>>

\* the client's queues under the reader and concurrent poppers
NextQueues ==
    \/ \E t \in Callers : StartBegin(t) /\ UNCHANGED <<handlerVars, hailoVars, libVars, srvVars, flowVars>>
    \/ \E t \in Callers : StartLaunch(t) /\ UNCHANGED <<handlerVars, hailoVars, libVars, srvVars, flowVars>>
    \/ ReaderLoop /\ UNCHANGED <<handlerVars, hailoVars, libVars, srvVars, flowVars>>
    \/ \E t \in Callers : PopDetections(t) /\ UNCHANGED <<handlerVars, hailoVars, libVars, srvVars, flowVars>>
    \/ \E t \in Callers : PopRemoteFrame(t) /\ UNCHANGED <<handlerVars, hailoVars, libVars, srvVars, flowVars>>

\* the client used from one thread only, as main.cpp and the Datastream
\* handler use it: lifecycle and sends, with the reader ending asynchronously
NextSequential ==
    \/ StartBegin(MainCaller) /\ UNCHANGED <<handlerVars, hailoVars, libVars, srvVars, flowVars>>
    \/ StartLaunch(MainCaller) /\ UNCHANGED <<handlerVars, hailoVars, libVars, srvVars, flowVars>>
    \/ \E text \in Texts : Send(MainCaller, text) /\ UNCHANGED <<handlerVars, hailoVars, libVars, srvVars, flowVars>>
    \/ SendFrameInternal(MainCaller) /\ UNCHANGED <<handlerVars, hailoVars, libVars, srvVars, flowVars>>
    \/ WriterLock(MainCaller) /\ UNCHANGED <<handlerVars, hailoVars, libVars, srvVars, flowVars>>
    \/ WriterWrite(MainCaller) /\ UNCHANGED <<handlerVars, hailoVars, libVars, srvVars, flowVars>>
    \/ Stop(MainCaller) /\ UNCHANGED <<handlerVars, hailoVars, libVars, srvVars, flowVars>>
    \/ StopLock(MainCaller) /\ UNCHANGED <<handlerVars, hailoVars, libVars, srvVars, flowVars>>
    \/ StopWritesDone(MainCaller) /\ UNCHANGED <<handlerVars, hailoVars, libVars, srvVars, flowVars>>
    \/ StopJoin(MainCaller) /\ UNCHANGED <<handlerVars, hailoVars, libVars, srvVars, flowVars>>
    \/ StopReset(MainCaller) /\ UNCHANGED <<handlerVars, hailoVars, libVars, srvVars, flowVars>>
    \/ DestroyBegin(MainCaller) /\ UNCHANGED <<handlerVars, hailoVars, libVars, srvVars, flowVars>>
    \/ DestroyEnd(MainCaller) /\ UNCHANGED <<handlerVars, hailoVars, libVars, srvVars, flowVars>>
    \/ ReaderReadEnd /\ UNCHANGED <<handlerVars, hailoVars, libVars, srvVars, flowVars>>
    \/ \E m \in ServerMessages : ReaderDetection(m) /\ UNCHANGED <<handlerVars, hailoVars, libVars, srvVars, flowVars>>

\* one Datastream handler and its peer
NextHandler ==
    \/ PeerCancel /\ UNCHANGED <<clientState, srvVars, flowVars, hailoVars, libVars>>
    \/ HandlerCancelled /\ UNCHANGED <<clientState, srvVars, flowVars, hailoVars, libVars>>
    \/ HandlerReadEnd /\ UNCHANGED <<clientState, srvVars, flowVars, hailoVars, libVars>>
    \/ \E cmd \in PeerCommands, k, e \in BOOLEAN :
          HandlerCameraFrame(cmd, k, e) /\ UNCHANGED <<clientState, srvVars, flowVars, hailoVars, libVars>>
    \/ HandlerWrite /\ UNCHANGED <<clientState, srvVars, flowVars, hailoVars, libVars>>
    \/ \E cmd \in PeerCommands : HandlerControlAction(cmd) /\ UNCHANGED <<clientState, srvVars, flowVars, hailoVars, libVars>>
    \/ \E cmd \in PeerCommands : HandlerOther(cmd) /\ UNCHANGED <<clientState, srvVars, flowVars, hailoVars, libVars>>
    \/ HandlerReturn /\ UNCHANGED <<clientState, srvVars, flowVars, hailoVars, libVars>>

\* the steps of main's thread, inside and between its calls
MainThread ==
    \/ MainInitSystem
    \/ MainInitWait
    \/ \E opened \in BOOLEAN : MainOpenVideo(opened)
    \/ MainConstructClient
    \/ MainStartStreaming
    \/ StartLaunch(MainCaller) /\ UNCHANGED <<handlerVars, hailoVars, libVars, srvVars, flowVars>>
    \/ MainWakeup
    \/ MainPoll
    \/ MainSendFrame
    \/ WriterLock(MainCaller) /\ UNCHANGED <<handlerVars, hailoVars, libVars, srvVars, flowVars>>
    \/ WriterWrite(MainCaller) /\ UNCHANGED <<handlerVars, hailoVars, libVars, srvVars, flowVars>>
    \/ MainSent
    \/ MainPopDetections
    \/ MainPopRemoteFrame
    \/ \E key \in Keys : MainKey(key)
    \/ MainStopStreaming
    \/ StopLock(MainCaller) /\ UNCHANGED <<handlerVars, hailoVars, libVars, srvVars, flowVars>>
    \/ StopWritesDone(MainCaller) /\ UNCHANGED <<handlerVars, hailoVars, libVars, srvVars, flowVars>>
    \/ StopJoin(MainCaller) /\ UNCHANGED <<handlerVars, hailoVars, libVars, srvVars, flowVars>>
    \/ StopReset(MainCaller) /\ UNCHANGED <<handlerVars, hailoVars, libVars, srvVars, flowVars>>
    \/ MainShutdownSystem
    \/ MainJoinServer
    \/ MainDestroyClient
    \/ MainDestroyClientEnd
    \/ MainDestroyServer
    \/ MainExit

\* the steps a caller takes inside the body of GrpcServer::Shutdown
ShutdownBody ==
    \/ \E c \in ShutdownCallers :
          ShutdownServer(c) /\ UNCHANGED <<clientState, handlerVars, hailoVars, libVars, flowVars>>
    \/ \E c \in ShutdownCallers :
          ShutdownQueue(c) /\ UNCHANGED <<clientState, handlerVars, hailoVars, libVars, flowVars>>
    \/ \E c \in ShutdownCallers, timedOut \in BOOLEAN :
          ShutdownPump(c, timedOut) /\ UNCHANGED <<clientState, handlerVars, hailoVars, libVars, flowVars>>
    \/ \E c \in ShutdownCallers :
          ShutdownRelease(c) /\ UNCHANGED <<clientState, handlerVars, hailoVars, libVars, flowVars>>

\* the server thread inside GrpcServer::Start
ServerThread ==
    \/ ServerBuild /\ UNCHANGED <<clientState, handlerVars, hailoVars, libVars>>
    \/ ServerResetFlags /\ UNCHANGED <<clientState, handlerVars, hailoVars, libVars>>
    \/ ServerSpawnPump /\ UNCHANGED <<clientState, handlerVars, hailoVars, libVars>>
    \/ ServerReady /\ UNCHANGED <<clientState, handlerVars, hailoVars, libVars>>
    \/ ServerWaitReturns /\ UNCHANGED <<clientState, handlerVars, hailoVars, libVars>>
    \/ ServerReturn /\ UNCHANGED <<clientState, handlerVars, hailoVars, libVars>>

\* the completion-queue pump thread
PumpThread ==
    \/ PumpNextEnds /\ UNCHANGED <<clientState, handlerVars, hailoVars, libVars>>
    \/ PumpExit /\ UNCHANGED <<clientState, handlerVars, hailoVars, libVars>>

\* the reader thread when the peer replies with detection results and
\* configuration responses only
ReaderOfResults ==
    \/ ReaderReadEnd /\ UNCHANGED <<handlerVars, hailoVars, libVars, srvVars, flowVars>>
    \/ \E m \in ServerMessages :
          ReaderDetection(m) /\ UNCHANGED <<handlerVars, hailoVars, libVars, srvVars, flowVars>>
    \/ \E m \in ServerMessages :
          ReaderConfigResponse(m) /\ UNCHANGED <<handlerVars, hailoVars, libVars, srvVars, flowVars>>

\* the presenter process: main, the server thread, the pump and the client's
\* reader; std::terminate ends every thread
NextMain ==
    \/ ~crashed /\ MainThread
    \/ ~crashed /\ ShutdownBody
    \/ ~crashed /\ ServerThread
    \/ ~crashed /\ PumpThread
    \/ ReaderOfResults

\* the shutdown of a process whose server may be serving a Datastream RPC:
\* main from shutdown_system to its return, the server thread, the pump, and
\* the handler with a peer that sends nothing more
NextServing ==
    \/ MainShutdownSystem
    \/ MainJoinServer
    \/ MainDestroyServer
    \/ MainExit
    \/ ShutdownBody
    \/ ServerWaitReturns /\ UNCHANGED <<clientState, handlerVars, hailoVars, libVars>>
    \/ ServerReturn /\ UNCHANGED <<clientState, handlerVars, hailoVars, libVars>>
    \/ PumpThread
    \/ PeerCancel /\ UNCHANGED <<clientState, srvVars, flowVars, hailoVars, libVars>>
    \/ HandlerCancelled /\ UNCHANGED <<clientState, srvVars, flowVars, hailoVars, libVars>>
    \/ HandlerReadEnd /\ UNCHANGED <<clientState, srvVars, flowVars, hailoVars, libVars>>
    \/ HandlerReturn /\ UNCHANGED <<clientState, srvVars, flowVars, hailoVars, libVars>>

\* the calls made to the HailoManager singleton
NextManager ==
    \/ \E path \in Paths, outcome \in InitOutcomes :
          HailoInit(path, outcome) /\ UNCHANGED <<clientState, handlerVars, srvVars, flowVars, libVars>>
    \/ HailoCleanup /\ UNCHANGED <<clientState, handlerVars, srvVars, flowVars, libVars>>
    \/ \E path \in Paths, outcome \in LoadOutcomes :
          GetOrCreateModel(path, outcome)
            /\ UNCHANGED <<clientState, handlerVars, srvVars, flowVars, libVars>>

\* the detection threshold is set and one frame is post-processed
NextInference ==
    \/ \E t \in Thresholds :
          SetDetectionThreshold(t)
            /\ UNCHANGED <<clientState, handlerVars, srvVars, flowVars, hailoVars, parserVars, nmsVars,
                           g_hailo_ctx, hi_pc, hi_ret, hi_calls, hi_made, hi_done>>
    \/ \E run_ok \in BOOLEAN :
          HailoInfer(run_ok)
            /\ UNCHANGED <<clientState, handlerVars, srvVars, flowVars, hailoVars, parserVars, nmsVars,
                           g_hailo_ctx, hi_pc, hi_ret, hi_calls, hi_made, hi_done>>

\* one JSON text is parsed
NextParser ==
    ParseBboxesFromJson
      /\ UNCHANGED <<clientState, handlerVars, srvVars, flowVars, hailoVars,
                     g_detection_threshold, nms_bboxes, result_json, infer_ret, nmsVars,
                     g_hailo_ctx, hi_pc, hi_ret, hi_calls, hi_made, hi_done>>

\* the NMS output of one frame is parsed, whatever the buffer holds
NextNms ==
    \E count \in 0..(MaxPerClass + 1) :
       ParseNmsData(count) /\ UNCHANGED <<clientState, handlerVars, srvVars, flowVars, hailoVars>>

\* one Datastream handler from its entry, with or without a forward target
NextForward ==
    \/ \E started \in BOOLEAN :
          HandlerEnter(started) /\ UNCHANGED <<clientState, srvVars, flowVars, hailoVars, libVars>>
    \/ NextHandler

\* the reader thread with the message it has read kept in sm, and a thread
\* that starts the client and pops the detections
NextReader ==
    \/ (StartBegin(MainCaller) \/ StartLaunch(MainCaller) \/ PopDetections(MainCaller)
          \/ ReaderReadEnd \/ ReaderFrameTrim)
         /\ UNCHANGED <<handlerVars, hailoVars, libVars, srvVars, flowVars>>
    \/ \E m \in ServerMessages :
          /\ \/ ReaderDetection(m)
             \/ ReaderCameraFrame(m)
             \/ ReaderConfigResponse(m)
             \/ ReaderDeviceStatus(m)
          /\ sm' = m
          /\ UNCHANGED <<handlerVars, hailoVars, srvVars, flowVars, g_detection_threshold,
                         nms_bboxes, result_json, infer_ret, json_text, parse_res,
                         parse_called, nmsVars, g_hailo_ctx, hi_pc, hi_ret, hi_calls, hi_made, hi_done>>

\* the threads that call hailo_init
NextContext ==
    \E t \in 1..MaxInitThreads, ok \in BOOLEAN :
       hailo_init(t, ok) /\ UNCHANGED <<clientState, handlerVars, srvVars, flowVars, hailoVars>>

Next ==
    \/ NextNms
    \/ NextForward
    \/ NextReader
    \/ NextContext
    \/ NextServing
    \/ NextInference
    \/ NextParser
    \/ NextManager
    \/ NextClient
    \/ NextQueues
    \/ NextHandler
    \/ NextMain

Spec == Init /\ [][Next]_vars
SpecClient == InitPresenter /\ [][NextClient]_vars
SpecQueues == InitPresenter /\ [][NextQueues]_vars
SpecSequential == InitPresenter /\ [][NextSequential]_vars
SpecHandler == InitCompute /\ [][NextHandler]_vars

\* the handler thread runs on: a Write that was entered returns and a loop
\* that was left is followed by the return; what the peer does is left open
SpecHandlerFair ==
    /\ SpecHandler
    /\ WF_vars(HandlerWrite /\ UNCHANGED <<clientState, srvVars, flowVars, hailoVars, libVars>>)
    /\ WF_vars(HandlerReturn /\ UNCHANGED <<clientState, srvVars, flowVars, hailoVars, libVars>>)
SpecStreams == (InitPresenter \/ InitCompute) /\ [][NextClient \/ NextHandler]_vars
SpecMain == InitMain /\ [][NextMain]_vars
SpecManager == InitAccelerator /\ [][NextManager]_vars
SpecInference == InitInference /\ [][NextInference]_vars
SpecParser == InitParser /\ [][NextParser]_vars
SpecServing == InitServing /\ [][NextServing]_vars
SpecContext == InitAccelerator /\ [][NextContext]_vars
SpecReader == InitPresenter /\ [][NextReader]_vars
SpecForward == InitForward /\ [][NextForward]_vars
SpecNms == InitNms /\ [][NextNms]_vars

\* every thread of the process that can take a step eventually takes one;
\* what the peer does (cancel, close) is left open
SpecServingFair ==
    /\ SpecServing
    /\ WF_vars(MainShutdownSystem \/ MainJoinServer \/ MainDestroyServer \/ MainExit)
    /\ WF_vars(ShutdownBody)
    /\ WF_vars((ServerWaitReturns \/ ServerReturn)
                 /\ UNCHANGED <<clientState, handlerVars, hailoVars, libVars>>)
    /\ WF_vars(PumpThread)
    /\ WF_vars((HandlerCancelled \/ HandlerReturn)
                 /\ UNCHANGED <<clientState, srvVars, flowVars, hailoVars, libVars>>)

\* every thread of the process that can take a step eventually takes one
SpecMainFair ==
    /\ SpecMain
    /\ WF_vars(~crashed /\ MainThread)
    /\ WF_vars(~crashed /\ ShutdownBody)
    /\ WF_vars(~crashed /\ ServerThread)
    /\ WF_vars(~crashed /\ PumpThread)
    /\ WF_vars(ReaderOfResults)

(* ====================================================================== *)
(*                               Properties                               *)
(* ====================================================================== *)

\* r is a subsequence of s: r can be obtained from s by deleting elements
RECURSIVE IsSubsequence(_, _)
IsSubsequence(r, s) ==
    IF r = <<>> THEN TRUE
    ELSE IF s = <<>> THEN FALSE
    ELSE IF Head(r) = Head(s) THEN IsSubsequence(Tail(r), Tail(s))
    ELSE IsSubsequence(r, Tail(s))

\* the frames enqueued so far, in wire order
FramesReceived == [i \in 1..nframes |-> i]
\* the detections pushed so far, in push order
DetectionsPushed == [i \in 1..npushed |-> i]

\* the reserved reply that tells the peer to shut down
TerminateAck ==
    [kind |-> "config_response", boxes |-> 0, image |-> "none", message |-> "terminate_ack"]

\* C1: on the client stream and on the per-RPC server stream at most one
\* thread is inside Write/WritesDone at any time, and that thread holds the
\* stream's writer mutex; each write appends one command to the wire sequence.
C1_OneWriter ==
    /\ Cardinality(inWrite) <= 1
    /\ inWrite \subseteq {writer_mtx_}
    /\ Cardinality(h_inWrite) <= 1
    /\ h_inWrite \subseteq {h_write_mtx}

C1_WireStep ==
    /\ wire' # wire =>
         \E t \in Callers : /\ inWrite = {t}
                            /\ wire' = Append(wire, cmdbuf[t])
    /\ s_wire' # s_wire => (h_inWrite # {} /\ s_wire' = Append(s_wire, h_sm))

C1_WriteSerialized ==
    /\ []C1_OneWriter
    /\ [][C1_WireStep]_vars

\* one caller is inside Write or WritesDone while the other waits for writer_mtx_
C1_Witness ==
    \E t, u \in Callers :
       /\ pc[t] \in {"send_write", "frame_write", "stop_writesdone"}
       /\ pc[u] \in {"send_lock", "frame_lock", "stop_lock"}
       /\ inWrite = {t}
       /\ wire # <<>>

\* C2: once the handler has read a control action STOP_STREAMING or REBOOT it
\* has written a config_response "terminate_ack", cleared running and left the
\* read loop.
C2_TerminateAckOnStop ==
    ("control_action" \in h_cmd.variant /\ h_cmd.action \in {"STOP_STREAMING", "REBOOT"})
      => /\ ~h_running
         /\ hpc \in {"exit", "done"}
         /\ s_wire # <<>>
         /\ s_wire[Len(s_wire)] = TerminateAck

\* C4: after stop() has returned (and until the next start) the reader thread
\* has been joined and the stream and the context are released.
C4_StopReleasesAll ==
    stopReturned => (~reader_thread_ /\ stream_ = "null" /\ context_ = "null")

\* C3: once the reader has read a config_response "terminate_ack", g_terminate
\* is true and the reader reads no further message; main leaves the send loop
\* at its next poll, then calls StopStreaming and then shutdown_system; and
\* after a terminate_ack main does get to stop the client and shut the server down.
C3_ReaderStops ==
    ackAt > 0 => (g_terminate /\ nread = ackAt /\ rpc \in {"done", "none"})

C3_MainStep ==
    /\ (g_terminate /\ mpc = "poll" /\ mpc' # mpc) => mpc' = "stop_client"
    /\ (mpc = "stop_client" /\ mpc' # mpc)
         => (mpc' = "shutdown_system" /\ (stopReturned' \/ pc'[MainCaller] = "stop_lock"))
    /\ (mpc = "shutdown_system" /\ mpc' # mpc)
         => ((lifetime = "alive" => stopReturned) /\ shutting_down_')

C3_TerminateAckEndsLoop ==
    /\ []C3_ReaderStops
    /\ [][C3_MainStep]_vars
    /\ (ackAt > 0) ~> (stopReturned /\ shutting_down_ /\ mpc \notin {"poll", "send_frame",
                         "sent", "pop_det", "pop_frame", "key", "stop_client"})

C3_Witness ==
    /\ ackAt > 0
    /\ g_terminate
    /\ stopReturned
    /\ mpc = "exited"
    /\ exitcode = "0"

\* C5: for a started server the body of GrpcServer::Shutdown is entered once,
\* whichever of main (shutdown_system), the server thread (after Wait) and
\* the destructor calls first; at most one caller is inside the body; a call
\* that finds the flag set returns at once; and the server, the queue and
\* the pump thread are touched only by the caller inside the body.
C5_BodyOnce ==
    /\ bodyRuns <= 1
    /\ Cardinality({c \in ShutdownCallers : sd[c] # "out"}) <= 1
    /\ (ready = "value" /\ mpc \in {"destroy_client", "destroy_server", "destroying_server",
                                    "exited"}) => bodyRuns = 1

C5_CallStep ==
    /\ \A c \in ShutdownCallers :
          (sd[c] = "out" /\ sd'[c] # "out") => (~shutting_down_ /\ bodyRuns' = bodyRuns + 1)
    /\ ((server_ # "null" /\ server_' # server_) \/ (cq_ # "null" /\ cq_' # cq_)
          \/ (cq_thread_ = "joinable" /\ cq_thread_' # cq_thread_))
         => \E c \in ShutdownCallers : sd[c] # "out" /\ sd'[c] # sd[c]

C5_ShutdownOnce ==
    /\ []C5_BodyOnce
    /\ [][C5_CallStep]_vars

\* main (twice) and the server thread have called Shutdown on a started server
C5_Witness ==
    /\ ready = "value"
    /\ spc = "returned"
    /\ mpc = "exited"
    /\ bodyRuns = 1
    /\ server_ = "null"
    /\ cq_thread_ # "joinable"

C7_FrameQueueBounded ==
    frame_mtx_ = NoThread => Len(frame_queue_) <= FrameQueueCap

C7_Witness ==
    /\ nframes > FrameQueueCap
    /\ frame_mtx_ = NoThread
    /\ Len(frame_queue_) = FrameQueueCap
    /\ popped # <<>>

\* C8: PopRemoteFrame returns false on an empty queue and otherwise removes and
\* returns the oldest frame; enqueueing onto a full queue evicts the oldest
\* frame; the frames popped are a subsequence of the frames received.
C8_PopStep ==
    (ret'.op = "pop_remote_frame" /\ (ret' # ret \/ popped' # popped))
      => IF frame_queue_ = <<>>
           THEN ret'.val = "false" /\ popped' = popped /\ frame_queue_' = <<>>
           ELSE /\ ret'.val = "true"
                /\ popped' = Append(popped, Head(frame_queue_))
                /\ frame_queue_' = Tail(frame_queue_)

C8_EvictStep ==
    (rpc = "frame_locked" /\ rpc' = "read")
      => frame_queue_' = IF Len(frame_queue_) > FrameQueueCap
                           THEN Tail(frame_queue_) ELSE frame_queue_

C8_PopOldestInOrder ==
    /\ [](IsSubsequence(popped, FramesReceived))
    /\ [][C8_PopStep /\ C8_EvictStep]_vars

\* frame 1 was popped, frame 2 was evicted by a later overflow, frame 3 popped
C8_Witness ==
    /\ Len(popped) >= 2
    /\ popped[2] > popped[1] + 1
    /\ ret.op = "pop_remote_frame"

\* C9: every detection pushed is returned by exactly one PopDetections call:
\* what was returned so far followed by what is still queued is exactly the
\* sequence of detections pushed.
C9_PopDetectionsExactlyOnce ==
    returned \o det_queue_ = DetectionsPushed

C9_Witness ==
    /\ Len(returned) >= 2
    /\ det_queue_ # <<>>
    /\ ret.op = "pop_detections"

\* C10: a send that finds the client not running returns false and starts no
\* write; a stream write that fails returns false and clears running_; and
\* running_, once false, stays false until a start, so later sends fail alike.
C10_NotRunningStep ==
    \A t \in Callers :
       (pc[t] = "idle" /\ ~running_)
         => /\ pc'[t] \notin {"send_lock", "frame_lock"}
            /\ (ret' # ret /\ ret'.by = t /\ ret'.op \in {"send", "send_frame"})
                 => (ret'.val = "false" /\ wire' = wire)

C10_WriteStep ==
    \A t \in Callers :
       (pc[t] \in {"send_write", "frame_write"} /\ pc'[t] = "idle")
         => IF wire' = wire
              THEN ~running_' /\ ret' = [by |-> t, op |-> OpOf(pc[t]), val |-> "false"]
              ELSE ret' = [by |-> t, op |-> OpOf(pc[t]), val |-> "true"]

C10_StaysClearedStep ==
    (~running_ /\ running_') => \E t \in Callers : pc[t] = "idle" /\ pc'[t] = "start_launch"

C10_SendFailure ==
    [][C10_NotRunningStep /\ C10_WriteStep /\ C10_StaysClearedStep]_vars

\* a write failed on a live stream and the send returned false
C10_Witness ==
    /\ ~running_
    /\ stream_ = "open"
    /\ context_ = "live"
    /\ ret.op \in {"send", "send_frame"}
    /\ ret.val = "false"
    /\ Len(wire) < nattempts

\* C11: a start() call that finds the client running returns true and leaves
\* the context, the stream and the reader thread as they are.
C11_StartStep ==
    \A t \in Callers :
       (running_ /\ pc[t] = "idle")
         => /\ pc'[t] # "start_launch"
            /\ (ret' # ret /\ ret'.by = t /\ ret'.op = "start")
                 => /\ ret'.val = "true"
                    /\ UNCHANGED <<running_, context_, stream_, reader_thread_, rpc, nstarts>>

C11_StartIdempotent == [][C11_StartStep]_vars

\* the client was started once, t2 has sent over the stream since, and the
\* call that returned last is a start() of t2
C11_Witness ==
    /\ ret = [by |-> "t2", op |-> "start", val |-> "true"]
    /\ nstarts = 1
    /\ cmdbuf["t2"] # NoCmd
    /\ wire # <<>>
    /\ running_
    /\ reader_thread_

\* C12: on a channel that never becomes READY start() returns failure, the
\* client is not running, no stream is open and no reader thread was started.
C12_ChannelUnready ==
    channel_ = "unreachable"
      => /\ ~running_
         /\ stream_ = "null"
         /\ ~reader_thread_
         /\ ret.op = "start" => ret.val = "false"

\* C13: the step of send_command("wakeup") that issues the wake-up RPC writes
\* nothing, starts no write, and leaves the running flag, both counters and
\* both queues unchanged.
C13_WakeupStep ==
    wake_rpcs' # wake_rpcs
      => /\ wake_rpcs' = wake_rpcs + 1
         /\ ret'.op = "send"
         /\ UNCHANGED <<wire, pc, cmdbuf, nattempts, inWrite, writer_mtx_, running_,
                        sent_frames_, received_results_, det_queue_, frame_queue_,
                        stream_, context_>>

C13_WakeupLeavesStream == [][C13_WakeupStep]_vars

\* on a client started once, whose writes all succeeded, the call that
\* returned last is a send that returned false: a wake-up RPC that failed
C13_Witness ==
    /\ wake_rpcs = 1
    /\ nstarts = 1
    /\ running_
    /\ wire # <<>>
    /\ Len(wire) = nattempts
    /\ ret.op = "send"
    /\ ret.val = "false"

\* C14: no step decreases sent_frames_ or received_results_.
C14_CounterStep ==
    /\ sent_frames_' >= sent_frames_
    /\ received_results_' >= received_results_

C14_CountersMonotone == [][C14_CounterStep]_vars

\* both counters have counted and the client runs on its second start
C14_Witness ==
    /\ nstarts = 2
    /\ running_
    /\ reader_thread_
    /\ sent_frames_ >= 1
    /\ received_results_ >= 1

\* the detection_result messages on the server stream
DetectionResultsWritten ==
    {i \in 1..Len(s_wire) : s_wire[i].kind = "detection_result"}

\* C15: in detection mode a frame that decodes and infers makes the handler
\* enter exactly one Write of a detection_result with the request's camera id
\* and timestamp; nothing is read while that Write is pending; so the
\* detection_result messages written are as many as such frames, less the
\* one Write that is pending or has failed.
C15_ReplyStep ==
    /\ (h_nread' # h_nread /\ h_outcome' = "infer_ok")
         => /\ hpc' = "write"
            /\ h_sm'.kind = "detection_result"
            /\ h_sm'.camera_id = h_cmd'.camera_id
            /\ h_sm'.timestamp = h_cmd'.timestamp
    /\ hpc = "write"
         => /\ h_nread' = h_nread
            /\ s_wire' # s_wire => s_wire' = Append(s_wire, h_sm)

C15_ReplyCount ==
    ~lowlight
      => Cardinality(DetectionResultsWritten)
           = h_ninfer - (IF hpc = "write" THEN 1 ELSE 0)
                      - (IF h_exit = "write_failed" THEN 1 ELSE 0)

C15_OneReplyPerFrame ==
    /\ []C15_ReplyCount
    /\ [][C15_ReplyStep]_vars

\* two frames were answered, one of them with the camera id and timestamp set
C15_Witness ==
    /\ ~lowlight
    /\ h_ninfer >= 2
    /\ Cardinality(DetectionResultsWritten) = h_ninfer
    /\ \E i \in DetectionResultsWritten :
          s_wire[i].camera_id = 7 /\ s_wire[i].timestamp = "ts"

\* C16: a camera frame that fails to decode is answered with nothing, leaves
\* running set and the handler in its read loop; the loop is then left only
\* because the peer cancels or closes.
C16_DropStep ==
    (h_nread' # h_nread /\ h_outcome' = "decode_failed")
      => /\ s_wire' = s_wire
         /\ h_inWrite' = {}
         /\ h_running'
         /\ hpc' = "loop"

C16_StreamGoesOn ==
    h_outcome = "decode_failed"
      => /\ h_running
         /\ hpc = "loop" \/ h_exit \in {"cancelled", "closed"}

C16_BadFrameDropped ==
    /\ []C16_StreamGoesOn
    /\ [][C16_DropStep]_vars

\* a bad frame was read after a reply had been written, and the handler is
\* ready to read again
C16_Witness ==
    /\ h_outcome = "decode_failed"
    /\ hpc = "loop"
    /\ h_running
    /\ ~h_cancelled
    /\ s_wire # <<>>
    /\ h_nread < MaxCommands

\* C17: a frame whose inference or enhancement fails starts no Write and the
\* handler stays in its read loop.
C17_FailureStep ==
    (h_nread' # h_nread /\ h_outcome' \in {"infer_failed", "enhance_failed"})
      => /\ hpc' = "loop"
         /\ h_inWrite' = {}
         /\ s_wire' = s_wire

C17_NoReplyOnFailure == [][C17_FailureStep]_vars

\* C18: after a failed reply Write running is clear, nothing more is read or
\* written on the stream, and the handler returns OK; it returns OK however
\* the loop was left.
C18_AfterFailure ==
    /\ h_exit = "write_failed" => (~h_running /\ hpc \in {"exit", "done"} /\ h_inWrite = {})
    /\ hpc = "done" => (h_status = "OK" /\ h_exit # "none")
    /\ h_status \in {"none", "OK"}

C18_FailureStep ==
    h_exit = "write_failed" => (h_nread' = h_nread /\ s_wire' = s_wire /\ h_inWrite' = {})

C18_WriteFailureReturnsOK ==
    /\ []C18_AfterFailure
    /\ [][C18_FailureStep]_vars

\* the handler has returned after a reply Write failed
C18_Witness ==
    /\ h_exit = "write_failed"
    /\ hpc = "done"
    /\ h_status = "OK"
    /\ ~h_running

\* C19: on an RPC that stays active (never cancelled, the handler never
\* leaving its loop) a device-status message gets written.
C19_SenderTask ==
    (<>[](hpc \in {"loop", "write"} /\ ~h_cancelled))
      => <>(\E i \in 1..Len(s_wire) : s_wire[i].kind = "device_status")

\* C20: once get_or_create_model(p) has succeeded, every later call for p
\* succeeds, returns the pair the first success returned, and neither loads
\* nor configures a graph.
C20_HitStep ==
    \A p \in Paths :
       (hm_calls' # hm_calls /\ hm_out'.op = "get_or_create" /\ hm_out'.path = p
          /\ hm_first[p] # NoPair)
         => /\ hm_out'.ok
            /\ hm_out'.pair = hm_first[p]
            /\ hm_loads' = hm_loads
            /\ hm_made' = hm_made

C20_CacheHit == [][C20_HitStep]_vars

\* a second get_or_create_model of a path returned its pair after a cleanup
C20_Witness ==
    \E p \in Paths :
       /\ hm_out = [op |-> "get_or_create", path |-> p, ok |-> TRUE, pair |-> hm_first[p]]
       /\ hm_first[p] # NoPair
       /\ hm_loads[p] = 1
       /\ vdevice_ = 0

\* C21: after init(p) has succeeded, get_or_create_model(p) succeeds, returns
\* the graph pair that init created, and neither loads nor configures a graph.
C21_DefaultStep ==
    \A p \in Paths :
       (hm_calls' # hm_calls /\ hm_out'.op = "get_or_create" /\ hm_out'.path = p
          /\ configured_infer_model_ # 0 /\ hm_default = p)
         => /\ hm_out'.ok
            /\ hm_out'.pair = [infer |-> infer_model_,
                               configured |-> configured_infer_model_]
            /\ hm_loads' = hm_loads
            /\ hm_made' = hm_made

C21_DefaultGraphCached == [][C21_DefaultStep]_vars

\* C22: get_or_create_model fails for every path while the manager holds no
\* configured default graph (init never succeeded, or cleanup ran since), and
\* a cleanup leaves both session maps empty and the device released.
C22_FailStep ==
    (hm_calls' # hm_calls /\ hm_out'.op = "get_or_create"
       /\ configured_infer_model_ = 0)
      => ~hm_out'.ok

C22_CleanupStep ==
    (hm_calls' # hm_calls /\ hm_out'.op = "cleanup")
      => /\ vdevice_' = 0
         /\ \A p \in Paths : extra_infer_models_'[p] = 0
                               /\ extra_configured_models_'[p] = 0

C22_NotInitialized == [][C22_FailStep /\ C22_CleanupStep]_vars

\* C23: the detections serialized by a successful hailo_infer are exactly the
\* boxes of the parsed list whose score is at least the threshold, in the
\* order of the list, and the count field is the number of them.
C23_Kept == SelectSeq(nms_bboxes, LAMBDA d : d.score >= g_detection_threshold)

C23_FilterStep ==
    (infer_ret = "none" /\ infer_ret' = "0")
      => /\ Len(result_json'.detections) = Len(C23_Kept)
         /\ \A i \in 1..Len(C23_Kept) :
               result_json'.detections[i] = JsonObject(C23_Kept[i])
         /\ result_json'.count
              = Cardinality({i \in 1..Len(nms_bboxes) :
                               nms_bboxes[i].score >= g_detection_threshold})

C23_ThresholdFilter == [][C23_FilterStep]_vars

\* a frame with a box exactly at the threshold, kept, and a box below it, dropped
C23_Witness ==
    /\ infer_ret = "0"
    /\ \E i, j \in 1..Len(nms_bboxes) :
          /\ nms_bboxes[i].score = g_detection_threshold
          /\ nms_bboxes[j].score < g_detection_threshold
    /\ result_json.count = Len(C23_Kept)
    /\ result_json.count \in 1..(Len(nms_bboxes) - 1)

\* C24: in low-light mode every camera_frame reply that is written declares
\* the width and the height of the decoded request frame and carries the
\* camera id and the timestamp of the request.
C24_ShapeStep ==
    (lowlight /\ hpc = "write" /\ Len(s_wire') = Len(s_wire) + 1
       /\ s_wire'[Len(s_wire')].kind = "camera_frame")
      => /\ s_wire'[Len(s_wire')].width = h_cmd.cols
         /\ s_wire'[Len(s_wire')].height = h_cmd.rows
         /\ s_wire'[Len(s_wire')].camera_id = h_cmd.camera_id
         /\ s_wire'[Len(s_wire')].timestamp = h_cmd.timestamp

C24_ReplyShape == [][C24_ShapeStep]_vars

\* an enhanced 320 x 240 frame with camera id and timestamp was answered
C24_Witness ==
    /\ lowlight
    /\ hpc = "loop"
    /\ h_outcome = "enhance_ok"
    /\ h_cmd.cols = 320 /\ h_cmd.rows = 240
    /\ h_cmd.camera_id = 7 /\ h_cmd.timestamp = "ts"
    /\ Len(s_wire) > 0
    /\ s_wire[Len(s_wire)] = [kind |-> "camera_frame", boxes |-> 0, image |-> "jpeg",
                              message |-> "none", width |-> 320, height |-> 240,
                              camera_id |-> 7, timestamp |-> "ts"]

\* C25: a text with one detection object whose bbox is the array [x, y, w, h]
\* (w, h positive) and which carries "score" and "class" parses to exactly
\* one box with that x, y, w, h, that score and that label; so the text of
\* scenario S5 gives the one box (0.1, 0.2, 0.3, 0.4, 0.9, "car").
C25_ParseStep ==
    (~parse_called /\ parse_called'
       /\ Len(json_text) = 1
       /\ json_text[1].bbox = "array" /\ json_text[1].len = 4
       /\ json_text[1].fields = {"score", "class"}
       /\ json_text[1].n[3] > 0 /\ json_text[1].n[4] > 0)
      => parse_res' = <<[x |-> json_text[1].n[1], y |-> json_text[1].n[2],
                         w |-> json_text[1].n[3], h |-> json_text[1].n[4],
                         score |-> 9, label |-> "car"]>>

C25_ArrayBboxParsed == [][C25_ParseStep]_vars

\* C26: a failed BuildAndStart puts the exception into the ready promise and
\* the promise gets its value only from a started server; once the promise
\* carries the exception, init_system joins the server thread and main
\* returns 1 with no GrpcClient constructed and no stream opened, and the
\* process exits with that code.
C26_StartStep ==
    /\ (spc = "build" /\ spc' = "returned")
         => (ready' = "exception" /\ server_' = "null" /\ cq_thread_' = "none")
    /\ (ready = "unset" /\ ready' = "value")
         => (server_ = "serving" /\ cq_thread_ = "joinable")

C26_FailedStart ==
    ready = "exception"
      => /\ lifetime = "unborn" /\ stream_ = "null" /\ ~running_
         /\ mpc \in {"init_wait", "destroy_server", "destroying_server", "exited"}
         /\ mpc # "init_wait" => (exitcode = "1" /\ ~server_thread /\ spc = "returned")

C26_StartFailureExits ==
    /\ [][C26_StartStep]_vars
    /\ []C26_FailedStart
    /\ (ready = "exception") ~> (mpc = "exited" /\ exitcode = "1")

\* the process has exited with code 1 after a failed start
C26_Witness ==
    /\ ready = "exception"
    /\ mpc = "exited"
    /\ exitcode = "1"
    /\ lifetime = "unborn"

\* C27: inside Shutdown the completion queue is shut down only after the
\* server was; the pump thread stops being joinable only after both, by a
\* join when it has signalled its exit and by a detach when it has not; the
\* caller goes on to the release with a thread object that is not joinable,
\* and the server and queue handles are reset only then.
C27_OrderStep ==
    /\ (cq_ = "open" /\ cq_' = "shutdown") => server_ = "shutdown"
    /\ (cq_thread_ = "joinable" /\ cq_thread_' # "joinable")
         => /\ server_ = "shutdown" /\ cq_ = "shutdown"
            /\ cq_thread_' = IF cq_thread_exited_ THEN "none" ELSE "detached"
    /\ ((server_ # "null" /\ server_' = "null") \/ (cq_ # "null" /\ cq_' = "null"))
         => cq_thread_ # "joinable"

C27_Released ==
    \A c \in ShutdownCallers : sd[c] = "release" => cq_thread_ # "joinable"

C28_ShutdownReturns ==
    /\ \A c \in ShutdownCallers : (sd[c] # "out") ~> (sd[c] = "out")
    /\ (mpc = "join_server") ~> (mpc \in {"destroy_server", "destroying_server", "exited"})

\* C29: a detection is identified by its rank among the messages read that
\* carried boxes.  Reading such a message puts its detection behind all that
\* are queued; and the detections handed out by the PopDetections calls so
\* far, in the order of the calls and within a call in the order of the
\* vector, followed by those still queued, are in the order of their ranks.
C29_PushStep ==
    (nread' # nread /\ npushed' # npushed)
      => /\ npushed' = npushed + 1
         /\ det_queue_' = det_queue_ \o <<npushed'>>
         /\ returned' = returned

C29_Ordered ==
    LET all == returned \o det_queue_
    IN  \A i, j \in 1..Len(all) : i < j => all[i] < all[j]

C29_ReadOrder == [][C29_PushStep]_vars /\ []C29_Ordered

\* three detections were handed out in the order read, and a message without
\* boxes was read as well
C29_Witness ==
    /\ ret.op = "pop_detections"
    /\ returned = <<1, 2, 3>>
    /\ det_queue_ = <<>>
    /\ nread > npushed
\* C30: once a call of the initialisation has succeeded, a call begun later
\* changes neither the device, nor the default session, nor the input shape
\* and returns success; the device is created and the default graph
\* configured at most once.
C30_LaterCall ==
    (hi_done > 0 /\ hi_calls' # hi_calls)
      => /\ g_hailo_ctx' = g_hailo_ctx
         /\ \A t \in 1..MaxInitThreads : hi_ret'[t] # hi_ret[t] => hi_ret'[t] = "0"
C30_InitOnce == [][C30_LaterCall]_vars /\ [](hi_done <= 1)

\* C31: each read of a message that carries a detection_result adds exactly
\* one to received_results_, boxes or not, and no other step changes the
\* counter; a Detection is queued exactly when at least one box was parsed
\* from such a message, so no queued Detection has an empty box list.
C31_ReadStep ==
    nread' # nread
      => /\ received_results_' = received_results_
                                   + (IF sm'.kind = "detection_result" THEN 1 ELSE 0)
         /\ IF sm'.kind = "detection_result" /\ sm'.boxes > 0
              THEN det_queue_' = Append(det_queue_, npushed') /\ npushed' = npushed + 1
              ELSE det_queue_' = det_queue_ /\ npushed' = npushed
C31_OtherStep ==
    nread' = nread => received_results_' = received_results_ /\ npushed' = npushed
C31_CountAndQueue == [][C31_ReadStep /\ C31_OtherStep]_vars

\* a detection_result without boxes was read last, after one with boxes: both
\* were counted and only the first was queued
C31_Witness ==
    /\ sm = [kind |-> "detection_result", boxes |-> 0, image |-> "none", message |-> "none"]
    /\ received_results_ = 2
    /\ npushed = 1
    /\ det_queue_ = <<1>>

\* C32: every box parse_bboxes_from_json returns has w > 0 and h > 0; a box
\* read from a record in the x_min/y_min/x_max/y_max form has w = x_max - x_min
\* and h = y_max - y_min, and a record of that form for which one of the two
\* is not positive gives no box.
C32_Positive == \A i \in 1..Len(parse_res) : parse_res[i].w > 0 /\ parse_res[i].h > 0
C32_ParseStep ==
    (~parse_called /\ parse_called')
      => /\ \A i \in 1..Len(parse_res') :
               \E j \in 1..Len(json_text) :
                  LET o == json_text[j]
                  IN  \/ /\ o.bbox = "object"
                         /\ parse_res'[i].w = o.n[3] - o.n[1]
                         /\ parse_res'[i].h = o.n[4] - o.n[2]
                      \/ /\ o.bbox = "array"
                         /\ parse_res'[i].w = o.n[3]
                         /\ parse_res'[i].h = o.n[4]
         /\ (\A j \in 1..Len(json_text) : json_text[j].bbox = "object")
               => Len(parse_res') <= Cardinality({j \in 1..Len(json_text) :
                                                   /\ json_text[j].n[3] - json_text[j].n[1] > 0
                                                   /\ json_text[j].n[4] - json_text[j].n[2] > 0})
C32_BoxesPositive == [][C32_ParseStep]_vars /\ []C32_Positive

\* a text of two records in the min/max form was parsed: the one with
\* x_min = x_max gave no box, the one with x_min = -0.1 and x_max = 0.3 gave a
\* box of width 0.4
C32_Witness ==
    /\ parse_called
    /\ Len(json_text) = 2
    /\ json_text[1].bbox = "object" /\ json_text[1].n = <<3, 2, 3, 4>>
    /\ json_text[2].bbox = "object" /\ json_text[2].n = <<-1, 2, 3, 4>>
    /\ Len(parse_res) = 1
    /\ parse_res[1].w = 4 /\ parse_res[1].h = 2

\* C33: with a forward target the handler constructs and starts at most one
\* forward client for the RPC; when it has returned, by whichever exit, the
\* client it started has been stopped and is no longer held, and the stop is
\* made by the step that returns; when the start fails the handler enters its
\* read loop without a forward client.
C33_OnePerRpc ==
    /\ fwd_made <= 1
    /\ fwd_made = (IF forward_target /\ hpc # "entry" THEN 1 ELSE 0)
    /\ hpc = "done" => forward_client = "null" /\ fwd_stops = fwd_starts
    /\ hpc \notin {"entry", "done"}
         => forward_client = (IF fwd_starts = 1 THEN "streaming" ELSE "null") /\ fwd_stops = 0
C33_EnterStep ==
    hpc = "entry" /\ hpc' # "entry" => hpc' = "loop" /\ h_running'
C33_ForwardClient == [][C33_EnterStep]_vars /\ []C33_OnePerRpc

\* the handler started a forward client, served a frame, was cancelled by the
\* peer and has returned with the forward client stopped
C33_Witness ==
    /\ forward_target
    /\ hpc = "done"
    /\ h_exit = "cancelled"
    /\ fwd_starts = 1
    /\ fwd_stops = 1
    /\ forward_client = "null"
    /\ Len(s_wire) >= 1

\* C34: the step of start() that assigns the reader task finds no earlier
\* reader task that is still joinable, also when the running flag was
\* cleared by a failed write since the last start, so that the assignment
\* goes through and the client runs on the new stream.
C34_LaunchStep ==
    \A t \in Callers :
       (pc[t] = "start_launch" /\ (pc'[t] # pc[t] \/ crashed' # crashed))
         => /\ ~reader_thread_
            /\ ~crashed'
            /\ reader_thread_' /\ running_' /\ stream_' = "open"
C34_RestartAfterFailedWrite == [][C34_LaunchStep]_vars

\* C35: a thread is inside Write on the client stream only while that stream
\* is open: not after stop() has called WritesDone and Finish on it, and not
\* after stop() has released the handle.
C35_NoWriteAfterStop ==
    \A t \in Callers : pc[t] \in {"send_write", "frame_write"} => stream_ = "open"

\* C36: while the pump thread is in its polling loop, testing the queue
\* handle or inside cq_->Next, the completion queue has not been released by
\* Shutdown, also when Shutdown has detached the pump.
C36_PumpQueueAlive == qpc = "next" => cq_ # "null"

\* C37: every ServerMessage the handler has written, or is writing, has a
\* variant set.
C37_NoEmptyMessage ==
    /\ \A i \in 1..Len(s_wire) : s_wire[i].kind # "none"
    /\ hpc = "write" => h_sm.kind # "none"

\* C38: sent_frames_ is the number of camera frames written to the stream:
\* it rises by one in the step in which a send_frame call returns true after
\* its Write succeeded, and in no other step, whether a control command is
\* written, a wake-up RPC is made or a write fails or is skipped.
C38_FramesWritten == {i \in 1..Len(wire) : wire[i].variant = {"camera_frame"}}
C38_CountStep ==
    IF \E t \in Callers : /\ pc[t] = "frame_write" /\ pc'[t] = "idle"
                          /\ ret' = [by |-> t, op |-> "send_frame", val |-> "true"]
      THEN sent_frames_' = sent_frames_ + 1
      ELSE sent_frames_' = sent_frames_
C38_SentFrames ==
    [][C38_CountStep]_vars /\ [](sent_frames_ = Cardinality(C38_FramesWritten))

\* one frame was written and counted; a command was written and a wake-up
\* RPC made without being counted, and the send_frame that returned last failed
C38_Witness ==
    /\ sent_frames_ = 1
    /\ Len(wire) >= 2
    /\ wake_rpcs >= 1
    /\ ret.op = "send_frame"
    /\ ret.val = "false"

\* C39: an init that fails, at whichever step, leaves the manager with no
\* device, no default graph and no default session; an init made while there
\* is no default session starts from a new device; while there is no device a
\* get_or_create of a path that is not cached fails; and a get_or_create
\* that fails leaves both cache maps as they were.
C39_CallStep ==
    hm_calls' # hm_calls
      => /\ (hm_out'.op = "init" /\ ~hm_out'.ok)
              => vdevice_' = 0 /\ infer_model_' = 0 /\ configured_infer_model_' = 0
         /\ (hm_out'.op = "init" /\ hm_out'.ok /\ configured_infer_model_ = 0)
              => /\ vdevice_' = hm_made + 1
                 /\ infer_model_' = hm_made + 2
                 /\ configured_infer_model_' = hm_made + 3
         /\ (hm_out'.op = "get_or_create" /\ vdevice_ = 0
                /\ extra_configured_models_[hm_out'.path] = 0)
              => ~hm_out'.ok
         /\ (hm_out'.op = "get_or_create" /\ ~hm_out'.ok)
              => UNCHANGED <<extra_infer_models_, extra_configured_models_>>
C39_NoDevice == configured_infer_model_ = 0 => vdevice_ = 0 /\ infer_model_ = 0
C40_WithinBuffer ==
    /\ nms_offset <= nms_size
    /\ \A i \in 1..Len(nms_out) : nms_out[i] \in 1..ClassCount

====
